---------------------------- MODULE Spec2Model ----------------------------
(***************************************************************************)
(* Receipt reconciliation pipeline: ReceiptReconciler.reconcile_receipts   *)
(* driving ReceiptExtractor, ReceiptValidator and the Oracle gateway.      *)
(*                                                                         *)
(* Texts (agent outputs) are sequences of one-character strings so that    *)
(* the substring and pattern tests of _parse_agent_response are computed   *)
(* and not assumed.  Confidence thresholds are percentages; confidences    *)
(* are the integers int() yields, so integer thresholds lose nothing.      *)
(***************************************************************************)
EXTENDS Integers, Sequences, FiniteSets, TLC

\* ------------------------------------------------------------------ bounds
NumRecords == 3
MaxLimit == 2

\* ------------------------------------------------- configuration (config/)
\* Values the environment may give MIN_CONFIDENCE_SCORE; 80 is the default.
\* Calls of update_receipt_status made directly by a user.
MaxUpdates == 2

\* How far above a record's confidence AUTO_RECONCILE_THRESHOLD is raised.
ThresholdRaise == 3

MinConfidenceValues == {80, 95}
\* Values the environment may give AUTO_RECONCILE_THRESHOLD; 90 is the default.
AutoReconcileValues == {90}

\* ------------------------------------------------------------------ texts
LowerLetters == <<"a", "b", "c", "d", "e", "f", "g", "h", "i", "j", "k", "l", "m", "n", "o", "p", "q", "r", "s", "t", "u", "v", "w", "x", "y", "z">>
UpperLetters == <<"A", "B", "C", "D", "E", "F", "G", "H", "I", "J", "K", "L", "M", "N", "O", "P", "Q", "R", "S", "T", "U", "V", "W", "X", "Y", "Z">>
Digits == <<"0", "1", "2", "3", "4", "5", "6", "7", "8", "9">>
\* A character is a string of one character; a character that no string of
\* this language can hold (the backtick, and beyond U+00FF every code point
\* whose code does not end in 80..FF) is written by its name, "U+0178".
\* [0-9]
IsAsciiDigit(c) == \E k \in 1..10 : Digits[k] = c

\* \d of a str pattern: the decimal digits of Unicode, in rows of ten from
\* zero to nine.
DecimalDigits == Digits \o <<
    "U+0660", "U+0661", "U+0662", "U+0663", "U+0664", "U+0665", "U+0666", "U+0667", "U+0668", "U+0669",
    "۰", "۱", "۲", "۳", "۴", "۵", "۶", "۷", "۸", "۹",
    "߀", "߁", "߂", "߃", "߄", "߅", "߆", "߇", "߈", "߉",
    "U+0966", "U+0967", "U+0968", "U+0969", "U+096A", "U+096B", "U+096C", "U+096D", "U+096E", "U+096F",
    "০", "১", "২", "৩", "৪", "৫", "৬", "৭", "৮", "৯",
    "U+0A66", "U+0A67", "U+0A68", "U+0A69", "U+0A6A", "U+0A6B", "U+0A6C", "U+0A6D", "U+0A6E", "U+0A6F",
    "૦", "૧", "૨", "૩", "૪", "૫", "૬", "૭", "૮", "૯",
    "U+0B66", "U+0B67", "U+0B68", "U+0B69", "U+0B6A", "U+0B6B", "U+0B6C", "U+0B6D", "U+0B6E", "U+0B6F",
    "௦", "௧", "௨", "௩", "௪", "௫", "௬", "௭", "௮", "௯",
    "U+0C66", "U+0C67", "U+0C68", "U+0C69", "U+0C6A", "U+0C6B", "U+0C6C", "U+0C6D", "U+0C6E", "U+0C6F",
    "೦", "೧", "೨", "೩", "೪", "೫", "೬", "೭", "೮", "೯",
    "U+0D66", "U+0D67", "U+0D68", "U+0D69", "U+0D6A", "U+0D6B", "U+0D6C", "U+0D6D", "U+0D6E", "U+0D6F",
    "෦", "෧", "෨", "෩", "෪", "෫", "෬", "෭", "෮", "෯",
    "U+0E50", "U+0E51", "U+0E52", "U+0E53", "U+0E54", "U+0E55", "U+0E56", "U+0E57", "U+0E58", "U+0E59",
    "໐", "໑", "໒", "໓", "໔", "໕", "໖", "໗", "໘", "໙",
    "U+0F20", "U+0F21", "U+0F22", "U+0F23", "U+0F24", "U+0F25", "U+0F26", "U+0F27", "U+0F28", "U+0F29",
    "U+1040", "U+1041", "U+1042", "U+1043", "U+1044", "U+1045", "U+1046", "U+1047", "U+1048", "U+1049",
    "႐", "႑", "႒", "႓", "႔", "႕", "႖", "႗", "႘", "႙",
    "០", "១", "២", "៣", "៤", "៥", "៦", "៧", "៨", "៩",
    "U+1810", "U+1811", "U+1812", "U+1813", "U+1814", "U+1815", "U+1816", "U+1817", "U+1818", "U+1819",
    "U+1946", "U+1947", "U+1948", "U+1949", "U+194A", "U+194B", "U+194C", "U+194D", "U+194E", "U+194F",
    "᧐", "᧑", "᧒", "᧓", "᧔", "᧕", "᧖", "᧗", "᧘", "᧙",
    "᪀", "᪁", "᪂", "᪃", "᪄", "᪅", "᪆", "᪇", "᪈", "᪉",
    "᪐", "᪑", "᪒", "᪓", "᪔", "᪕", "᪖", "᪗", "᪘", "᪙",
    "U+1B50", "U+1B51", "U+1B52", "U+1B53", "U+1B54", "U+1B55", "U+1B56", "U+1B57", "U+1B58", "U+1B59",
    "᮰", "᮱", "᮲", "᮳", "᮴", "᮵", "᮶", "᮷", "᮸", "᮹",
    "U+1C40", "U+1C41", "U+1C42", "U+1C43", "U+1C44", "U+1C45", "U+1C46", "U+1C47", "U+1C48", "U+1C49",
    "U+1C50", "U+1C51", "U+1C52", "U+1C53", "U+1C54", "U+1C55", "U+1C56", "U+1C57", "U+1C58", "U+1C59",
    "U+A620", "U+A621", "U+A622", "U+A623", "U+A624", "U+A625", "U+A626", "U+A627", "U+A628", "U+A629",
    "꣐", "꣑", "꣒", "꣓", "꣔", "꣕", "꣖", "꣗", "꣘", "꣙",
    "U+A900", "U+A901", "U+A902", "U+A903", "U+A904", "U+A905", "U+A906", "U+A907", "U+A908", "U+A909",
    "꧐", "꧑", "꧒", "꧓", "꧔", "꧕", "꧖", "꧗", "꧘", "꧙",
    "꧰", "꧱", "꧲", "꧳", "꧴", "꧵", "꧶", "꧷", "꧸", "꧹",
    "U+AA50", "U+AA51", "U+AA52", "U+AA53", "U+AA54", "U+AA55", "U+AA56", "U+AA57", "U+AA58", "U+AA59",
    "꯰", "꯱", "꯲", "꯳", "꯴", "꯵", "꯶", "꯷", "꯸", "꯹",
    "U+FF10", "U+FF11", "U+FF12", "U+FF13", "U+FF14", "U+FF15", "U+FF16", "U+FF17", "U+FF18", "U+FF19",
    "U+104A0", "U+104A1", "U+104A2", "U+104A3", "U+104A4", "U+104A5", "U+104A6", "U+104A7", "U+104A8", "U+104A9",
    "U+10D30", "U+10D31", "U+10D32", "U+10D33", "U+10D34", "U+10D35", "U+10D36", "U+10D37", "U+10D38", "U+10D39",
    "U+11066", "U+11067", "U+11068", "U+11069", "U+1106A", "U+1106B", "U+1106C", "U+1106D", "U+1106E", "U+1106F",
    "U+110F0", "U+110F1", "U+110F2", "U+110F3", "U+110F4", "U+110F5", "U+110F6", "U+110F7", "U+110F8", "U+110F9",
    "U+11136", "U+11137", "U+11138", "U+11139", "U+1113A", "U+1113B", "U+1113C", "U+1113D", "U+1113E", "U+1113F",
    "U+111D0", "U+111D1", "U+111D2", "U+111D3", "U+111D4", "U+111D5", "U+111D6", "U+111D7", "U+111D8", "U+111D9",
    "U+112F0", "U+112F1", "U+112F2", "U+112F3", "U+112F4", "U+112F5", "U+112F6", "U+112F7", "U+112F8", "U+112F9",
    "U+11450", "U+11451", "U+11452", "U+11453", "U+11454", "U+11455", "U+11456", "U+11457", "U+11458", "U+11459",
    "U+114D0", "U+114D1", "U+114D2", "U+114D3", "U+114D4", "U+114D5", "U+114D6", "U+114D7", "U+114D8", "U+114D9",
    "U+11650", "U+11651", "U+11652", "U+11653", "U+11654", "U+11655", "U+11656", "U+11657", "U+11658", "U+11659",
    "U+116C0", "U+116C1", "U+116C2", "U+116C3", "U+116C4", "U+116C5", "U+116C6", "U+116C7", "U+116C8", "U+116C9",
    "U+11730", "U+11731", "U+11732", "U+11733", "U+11734", "U+11735", "U+11736", "U+11737", "U+11738", "U+11739",
    "U+118E0", "U+118E1", "U+118E2", "U+118E3", "U+118E4", "U+118E5", "U+118E6", "U+118E7", "U+118E8", "U+118E9",
    "U+11950", "U+11951", "U+11952", "U+11953", "U+11954", "U+11955", "U+11956", "U+11957", "U+11958", "U+11959",
    "U+11C50", "U+11C51", "U+11C52", "U+11C53", "U+11C54", "U+11C55", "U+11C56", "U+11C57", "U+11C58", "U+11C59",
    "U+11D50", "U+11D51", "U+11D52", "U+11D53", "U+11D54", "U+11D55", "U+11D56", "U+11D57", "U+11D58", "U+11D59",
    "U+11DA0", "U+11DA1", "U+11DA2", "U+11DA3", "U+11DA4", "U+11DA5", "U+11DA6", "U+11DA7", "U+11DA8", "U+11DA9",
    "U+16A60", "U+16A61", "U+16A62", "U+16A63", "U+16A64", "U+16A65", "U+16A66", "U+16A67", "U+16A68", "U+16A69",
    "U+16AC0", "U+16AC1", "U+16AC2", "U+16AC3", "U+16AC4", "U+16AC5", "U+16AC6", "U+16AC7", "U+16AC8", "U+16AC9",
    "U+16B50", "U+16B51", "U+16B52", "U+16B53", "U+16B54", "U+16B55", "U+16B56", "U+16B57", "U+16B58", "U+16B59",
    "U+1D7CE", "U+1D7CF", "U+1D7D0", "U+1D7D1", "U+1D7D2", "U+1D7D3", "U+1D7D4", "U+1D7D5", "U+1D7D6", "U+1D7D7",
    "U+1D7D8", "U+1D7D9", "U+1D7DA", "U+1D7DB", "U+1D7DC", "U+1D7DD", "U+1D7DE", "U+1D7DF", "U+1D7E0", "U+1D7E1",
    "U+1D7E2", "U+1D7E3", "U+1D7E4", "U+1D7E5", "U+1D7E6", "U+1D7E7", "U+1D7E8", "U+1D7E9", "U+1D7EA", "U+1D7EB",
    "U+1D7EC", "U+1D7ED", "U+1D7EE", "U+1D7EF", "U+1D7F0", "U+1D7F1", "U+1D7F2", "U+1D7F3", "U+1D7F4", "U+1D7F5",
    "U+1D7F6", "U+1D7F7", "U+1D7F8", "U+1D7F9", "U+1D7FA", "U+1D7FB", "U+1D7FC", "U+1D7FD", "U+1D7FE", "U+1D7FF",
    "U+1E140", "U+1E141", "U+1E142", "U+1E143", "U+1E144", "U+1E145", "U+1E146", "U+1E147", "U+1E148", "U+1E149",
    "U+1E2F0", "U+1E2F1", "U+1E2F2", "U+1E2F3", "U+1E2F4", "U+1E2F5", "U+1E2F6", "U+1E2F7", "U+1E2F8", "U+1E2F9",
    "U+1E950", "U+1E951", "U+1E952", "U+1E953", "U+1E954", "U+1E955", "U+1E956", "U+1E957", "U+1E958", "U+1E959",
    "U+1FBF0", "U+1FBF1", "U+1FBF2", "U+1FBF3", "U+1FBF4", "U+1FBF5", "U+1FBF6", "U+1FBF7", "U+1FBF8", "U+1FBF9"
>>

DecimalDigitSet == {DecimalDigits[k] : k \in 1..Len(DecimalDigits)}

\* \s of a str pattern, str.isspace(): tab, newline, U+000B, form feed,
\* carriage return, U+001C..U+001F, space, U+0085, U+00A0, U+1680 and the
\* spaces from U+2000 on.
Whitespace ==
    {"\t", "\n", "", "\f", "\r", "", "", "", "", " ", "", " ", " ",
     "U+2000", "U+2001", "U+2002", "U+2003", "U+2004", "U+2005", "U+2006", "U+2007",
     "U+2008", "U+2009", "U+200A", "U+2028", "U+2029", "U+202F", "U+205F", "U+3000"}

\* The letters beyond ASCII that str.upper() changes, and what it makes of
\* each (one to three characters).
CasedLetters == <<
    "µ", "ß", "à", "á", "â", "ã", "ä", "å", "æ", "ç", "è", "é",
    "ê", "ë", "ì", "í", "î", "ï", "ð", "ñ", "ò", "ó", "ô", "õ",
    "ö", "ø", "ù", "ú", "û", "ü", "ý", "þ", "ÿ", "U+0101", "U+0103", "U+0105",
    "U+0107", "U+0109", "U+010B", "U+010D", "U+010F", "U+0111", "U+0113", "U+0115", "U+0117", "U+0119", "U+011B", "U+011D",
    "U+011F", "U+0121", "U+0123", "U+0125", "U+0127", "U+0129", "U+012B", "U+012D", "U+012F", "U+0131", "U+0133", "U+0135",
    "U+0137", "U+013A", "U+013C", "U+013E", "U+0140", "U+0142", "U+0144", "U+0146", "U+0148", "U+0149", "U+014B", "U+014D",
    "U+014F", "U+0151", "U+0153", "U+0155", "U+0157", "U+0159", "U+015B", "U+015D", "U+015F", "U+0161", "U+0163", "U+0165",
    "U+0167", "U+0169", "U+016B", "U+016D", "U+016F", "U+0171", "U+0173", "U+0175", "U+0177", "U+017A", "U+017C", "U+017E",
    "U+017F", "ƀ", "ƃ", "ƅ", "ƈ", "ƌ", "ƒ", "ƕ", "ƙ", "ƚ", "ƞ", "ơ",
    "ƣ", "ƥ", "ƨ", "ƭ", "ư", "ƴ", "ƶ", "ƹ", "ƽ", "ƿ", "ǅ", "ǆ",
    "ǈ", "ǉ", "ǋ", "ǌ", "ǎ", "ǐ", "ǒ", "ǔ", "ǖ", "ǘ", "ǚ", "ǜ",
    "ǝ", "ǟ", "ǡ", "ǣ", "ǥ", "ǧ", "ǩ", "ǫ", "ǭ", "ǯ", "ǰ", "ǲ",
    "ǳ", "ǵ", "ǹ", "ǻ", "ǽ", "ǿ", "U+0201", "U+0203", "U+0205", "U+0207", "U+0209", "U+020B",
    "U+020D", "U+020F", "U+0211", "U+0213", "U+0215", "U+0217", "U+0219", "U+021B", "U+021D", "U+021F", "U+0223", "U+0225",
    "U+0227", "U+0229", "U+022B", "U+022D", "U+022F", "U+0231", "U+0233", "U+023C", "U+023F", "U+0240", "U+0242", "U+0247",
    "U+0249", "U+024B", "U+024D", "U+024F", "U+0250", "U+0251", "U+0252", "U+0253", "U+0254", "U+0256", "U+0257", "U+0259",
    "U+025B", "U+025C", "U+0260", "U+0261", "U+0263", "U+0265", "U+0266", "U+0268", "U+0269", "U+026A", "U+026B", "U+026C",
    "U+026F", "U+0271", "U+0272", "U+0275", "U+027D", "ʀ", "ʂ", "ʃ", "ʇ", "ʈ", "ʉ", "ʊ",
    "ʋ", "ʌ", "ʒ", "ʝ", "ʞ", "U+0345", "U+0371", "U+0373", "U+0377", "U+037B", "U+037C", "U+037D",
    "ΐ", "ά", "έ", "ή", "ί", "ΰ", "α", "β", "γ", "δ", "ε", "ζ",
    "η", "θ", "ι", "κ", "λ", "μ", "ν", "ξ", "ο", "π", "ρ", "ς",
    "σ", "τ", "υ", "φ", "χ", "ψ", "ω", "ϊ", "ϋ", "ό", "ύ", "ώ",
    "ϐ", "ϑ", "ϕ", "ϖ", "ϗ", "ϙ", "ϛ", "ϝ", "ϟ", "ϡ", "ϣ", "ϥ",
    "ϧ", "ϩ", "ϫ", "ϭ", "ϯ", "ϰ", "ϱ", "ϲ", "ϳ", "ϵ", "ϸ", "ϻ",
    "U+0430", "U+0431", "U+0432", "U+0433", "U+0434", "U+0435", "U+0436", "U+0437", "U+0438", "U+0439", "U+043A", "U+043B",
    "U+043C", "U+043D", "U+043E", "U+043F", "U+0440", "U+0441", "U+0442", "U+0443", "U+0444", "U+0445", "U+0446", "U+0447",
    "U+0448", "U+0449", "U+044A", "U+044B", "U+044C", "U+044D", "U+044E", "U+044F", "U+0450", "U+0451", "U+0452", "U+0453",
    "U+0454", "U+0455", "U+0456", "U+0457", "U+0458", "U+0459", "U+045A", "U+045B", "U+045C", "U+045D", "U+045E", "U+045F",
    "U+0461", "U+0463", "U+0465", "U+0467", "U+0469", "U+046B", "U+046D", "U+046F", "U+0471", "U+0473", "U+0475", "U+0477",
    "U+0479", "U+047B", "U+047D", "U+047F", "ҁ", "ҋ", "ҍ", "ҏ", "ґ", "ғ", "ҕ", "җ",
    "ҙ", "қ", "ҝ", "ҟ", "ҡ", "ң", "ҥ", "ҧ", "ҩ", "ҫ", "ҭ", "ү",
    "ұ", "ҳ", "ҵ", "ҷ", "ҹ", "һ", "ҽ", "ҿ", "ӂ", "ӄ", "ӆ", "ӈ",
    "ӊ", "ӌ", "ӎ", "ӏ", "ӑ", "ӓ", "ӕ", "ӗ", "ә", "ӛ", "ӝ", "ӟ",
    "ӡ", "ӣ", "ӥ", "ӧ", "ө", "ӫ", "ӭ", "ӯ", "ӱ", "ӳ", "ӵ", "ӷ",
    "ӹ", "ӻ", "ӽ", "ӿ", "U+0501", "U+0503", "U+0505", "U+0507", "U+0509", "U+050B", "U+050D", "U+050F",
    "U+0511", "U+0513", "U+0515", "U+0517", "U+0519", "U+051B", "U+051D", "U+051F", "U+0521", "U+0523", "U+0525", "U+0527",
    "U+0529", "U+052B", "U+052D", "U+052F", "U+0561", "U+0562", "U+0563", "U+0564", "U+0565", "U+0566", "U+0567", "U+0568",
    "U+0569", "U+056A", "U+056B", "U+056C", "U+056D", "U+056E", "U+056F", "U+0570", "U+0571", "U+0572", "U+0573", "U+0574",
    "U+0575", "U+0576", "U+0577", "U+0578", "U+0579", "U+057A", "U+057B", "U+057C", "U+057D", "U+057E", "U+057F", "ր",
    "ց", "ւ", "փ", "ք", "օ", "ֆ", "և", "ა", "ბ", "გ", "დ", "ე",
    "ვ", "ზ", "თ", "ი", "კ", "ლ", "მ", "ნ", "ო", "პ", "ჟ", "რ",
    "ს", "ტ", "უ", "ფ", "ქ", "ღ", "ყ", "შ", "ჩ", "ც", "ძ", "წ",
    "ჭ", "ხ", "ჯ", "ჰ", "ჱ", "ჲ", "ჳ", "ჴ", "ჵ", "ჶ", "ჷ", "ჸ",
    "ჹ", "ჺ", "ჽ", "ჾ", "ჿ", "ᏸ", "ᏹ", "ᏺ", "ᏻ", "ᏼ", "ᏽ", "ᲀ",
    "ᲁ", "ᲂ", "ᲃ", "ᲄ", "ᲅ", "ᲆ", "ᲇ", "ᲈ", "U+1D79", "U+1D7D", "ᶎ", "U+1E01",
    "U+1E03", "U+1E05", "U+1E07", "U+1E09", "U+1E0B", "U+1E0D", "U+1E0F", "U+1E11", "U+1E13", "U+1E15", "U+1E17", "U+1E19",
    "U+1E1B", "U+1E1D", "U+1E1F", "U+1E21", "U+1E23", "U+1E25", "U+1E27", "U+1E29", "U+1E2B", "U+1E2D", "U+1E2F", "U+1E31",
    "U+1E33", "U+1E35", "U+1E37", "U+1E39", "U+1E3B", "U+1E3D", "U+1E3F", "U+1E41", "U+1E43", "U+1E45", "U+1E47", "U+1E49",
    "U+1E4B", "U+1E4D", "U+1E4F", "U+1E51", "U+1E53", "U+1E55", "U+1E57", "U+1E59", "U+1E5B", "U+1E5D", "U+1E5F", "U+1E61",
    "U+1E63", "U+1E65", "U+1E67", "U+1E69", "U+1E6B", "U+1E6D", "U+1E6F", "U+1E71", "U+1E73", "U+1E75", "U+1E77", "U+1E79",
    "U+1E7B", "U+1E7D", "U+1E7F", "ẁ", "ẃ", "ẅ", "ẇ", "ẉ", "ẋ", "ẍ", "ẏ", "ẑ",
    "ẓ", "ẕ", "ẖ", "ẗ", "ẘ", "ẙ", "ẚ", "ẛ", "ạ", "ả", "ấ", "ầ",
    "ẩ", "ẫ", "ậ", "ắ", "ằ", "ẳ", "ẵ", "ặ", "ẹ", "ẻ", "ẽ", "ế",
    "ề", "ể", "ễ", "ệ", "ỉ", "ị", "ọ", "ỏ", "ố", "ồ", "ổ", "ỗ",
    "ộ", "ớ", "ờ", "ở", "ỡ", "ợ", "ụ", "ủ", "ứ", "ừ", "ử", "ữ",
    "ự", "ỳ", "ỵ", "ỷ", "ỹ", "ỻ", "ỽ", "ỿ", "U+1F00", "U+1F01", "U+1F02", "U+1F03",
    "U+1F04", "U+1F05", "U+1F06", "U+1F07", "U+1F10", "U+1F11", "U+1F12", "U+1F13", "U+1F14", "U+1F15", "U+1F20", "U+1F21",
    "U+1F22", "U+1F23", "U+1F24", "U+1F25", "U+1F26", "U+1F27", "U+1F30", "U+1F31", "U+1F32", "U+1F33", "U+1F34", "U+1F35",
    "U+1F36", "U+1F37", "U+1F40", "U+1F41", "U+1F42", "U+1F43", "U+1F44", "U+1F45", "U+1F50", "U+1F51", "U+1F52", "U+1F53",
    "U+1F54", "U+1F55", "U+1F56", "U+1F57", "U+1F60", "U+1F61", "U+1F62", "U+1F63", "U+1F64", "U+1F65", "U+1F66", "U+1F67",
    "U+1F70", "U+1F71", "U+1F72", "U+1F73", "U+1F74", "U+1F75", "U+1F76", "U+1F77", "U+1F78", "U+1F79", "U+1F7A", "U+1F7B",
    "U+1F7C", "U+1F7D", "ᾀ", "ᾁ", "ᾂ", "ᾃ", "ᾄ", "ᾅ", "ᾆ", "ᾇ", "ᾈ", "ᾉ",
    "ᾊ", "ᾋ", "ᾌ", "ᾍ", "ᾎ", "ᾏ", "ᾐ", "ᾑ", "ᾒ", "ᾓ", "ᾔ", "ᾕ",
    "ᾖ", "ᾗ", "ᾘ", "ᾙ", "ᾚ", "ᾛ", "ᾜ", "ᾝ", "ᾞ", "ᾟ", "ᾠ", "ᾡ",
    "ᾢ", "ᾣ", "ᾤ", "ᾥ", "ᾦ", "ᾧ", "ᾨ", "ᾩ", "ᾪ", "ᾫ", "ᾬ", "ᾭ",
    "ᾮ", "ᾯ", "ᾰ", "ᾱ", "ᾲ", "ᾳ", "ᾴ", "ᾶ", "ᾷ", "ᾼ", "ι", "ῂ",
    "ῃ", "ῄ", "ῆ", "ῇ", "ῌ", "ῐ", "ῑ", "ῒ", "ΐ", "ῖ", "ῗ", "ῠ",
    "ῡ", "ῢ", "ΰ", "ῤ", "ῥ", "ῦ", "ῧ", "ῲ", "ῳ", "ῴ", "ῶ", "ῷ",
    "ῼ", "U+214E", "U+2170", "U+2171", "U+2172", "U+2173", "U+2174", "U+2175", "U+2176", "U+2177", "U+2178", "U+2179",
    "U+217A", "U+217B", "U+217C", "U+217D", "U+217E", "U+217F", "ↄ", "ⓐ", "ⓑ", "ⓒ", "ⓓ", "ⓔ",
    "ⓕ", "ⓖ", "ⓗ", "ⓘ", "ⓙ", "ⓚ", "ⓛ", "ⓜ", "ⓝ", "ⓞ", "ⓟ", "ⓠ",
    "ⓡ", "ⓢ", "ⓣ", "ⓤ", "ⓥ", "ⓦ", "ⓧ", "ⓨ", "ⓩ", "U+2C30", "U+2C31", "U+2C32",
    "U+2C33", "U+2C34", "U+2C35", "U+2C36", "U+2C37", "U+2C38", "U+2C39", "U+2C3A", "U+2C3B", "U+2C3C", "U+2C3D", "U+2C3E",
    "U+2C3F", "U+2C40", "U+2C41", "U+2C42", "U+2C43", "U+2C44", "U+2C45", "U+2C46", "U+2C47", "U+2C48", "U+2C49", "U+2C4A",
    "U+2C4B", "U+2C4C", "U+2C4D", "U+2C4E", "U+2C4F", "U+2C50", "U+2C51", "U+2C52", "U+2C53", "U+2C54", "U+2C55", "U+2C56",
    "U+2C57", "U+2C58", "U+2C59", "U+2C5A", "U+2C5B", "U+2C5C", "U+2C5D", "U+2C5E", "U+2C5F", "U+2C61", "U+2C65", "U+2C66",
    "U+2C68", "U+2C6A", "U+2C6C", "U+2C73", "U+2C76", "ⲁ", "ⲃ", "ⲅ", "ⲇ", "ⲉ", "ⲋ", "ⲍ",
    "ⲏ", "ⲑ", "ⲓ", "ⲕ", "ⲗ", "ⲙ", "ⲛ", "ⲝ", "ⲟ", "ⲡ", "ⲣ", "ⲥ",
    "ⲧ", "ⲩ", "ⲫ", "ⲭ", "ⲯ", "ⲱ", "ⲳ", "ⲵ", "ⲷ", "ⲹ", "ⲻ", "ⲽ",
    "ⲿ", "ⳁ", "ⳃ", "ⳅ", "ⳇ", "ⳉ", "ⳋ", "ⳍ", "ⳏ", "ⳑ", "ⳓ", "ⳕ",
    "ⳗ", "ⳙ", "ⳛ", "ⳝ", "ⳟ", "ⳡ", "ⳣ", "ⳬ", "ⳮ", "ⳳ", "U+2D00", "U+2D01",
    "U+2D02", "U+2D03", "U+2D04", "U+2D05", "U+2D06", "U+2D07", "U+2D08", "U+2D09", "U+2D0A", "U+2D0B", "U+2D0C", "U+2D0D",
    "U+2D0E", "U+2D0F", "U+2D10", "U+2D11", "U+2D12", "U+2D13", "U+2D14", "U+2D15", "U+2D16", "U+2D17", "U+2D18", "U+2D19",
    "U+2D1A", "U+2D1B", "U+2D1C", "U+2D1D", "U+2D1E", "U+2D1F", "U+2D20", "U+2D21", "U+2D22", "U+2D23", "U+2D24", "U+2D25",
    "U+2D27", "U+2D2D", "U+A641", "U+A643", "U+A645", "U+A647", "U+A649", "U+A64B", "U+A64D", "U+A64F", "U+A651", "U+A653",
    "U+A655", "U+A657", "U+A659", "U+A65B", "U+A65D", "U+A65F", "U+A661", "U+A663", "U+A665", "U+A667", "U+A669", "U+A66B",
    "U+A66D", "ꚁ", "ꚃ", "ꚅ", "ꚇ", "ꚉ", "ꚋ", "ꚍ", "ꚏ", "ꚑ", "ꚓ", "ꚕ",
    "ꚗ", "ꚙ", "ꚛ", "U+A723", "U+A725", "U+A727", "U+A729", "U+A72B", "U+A72D", "U+A72F", "U+A733", "U+A735",
    "U+A737", "U+A739", "U+A73B", "U+A73D", "U+A73F", "U+A741", "U+A743", "U+A745", "U+A747", "U+A749", "U+A74B", "U+A74D",
    "U+A74F", "U+A751", "U+A753", "U+A755", "U+A757", "U+A759", "U+A75B", "U+A75D", "U+A75F", "U+A761", "U+A763", "U+A765",
    "U+A767", "U+A769", "U+A76B", "U+A76D", "U+A76F", "U+A77A", "U+A77C", "U+A77F", "ꞁ", "ꞃ", "ꞅ", "ꞇ",
    "ꞌ", "ꞑ", "ꞓ", "ꞔ", "ꞗ", "ꞙ", "ꞛ", "ꞝ", "ꞟ", "ꞡ", "ꞣ", "ꞥ",
    "ꞧ", "ꞩ", "ꞵ", "ꞷ", "ꞹ", "ꞻ", "ꞽ", "ꞿ", "ꟁ", "ꟃ", "ꟈ", "ꟊ",
    "ꟑ", "ꟗ", "ꟙ", "ꟶ", "U+AB53", "U+AB70", "U+AB71", "U+AB72", "U+AB73", "U+AB74", "U+AB75", "U+AB76",
    "U+AB77", "U+AB78", "U+AB79", "U+AB7A", "U+AB7B", "U+AB7C", "U+AB7D", "U+AB7E", "U+AB7F", "ꮀ", "ꮁ", "ꮂ",
    "ꮃ", "ꮄ", "ꮅ", "ꮆ", "ꮇ", "ꮈ", "ꮉ", "ꮊ", "ꮋ", "ꮌ", "ꮍ", "ꮎ",
    "ꮏ", "ꮐ", "ꮑ", "ꮒ", "ꮓ", "ꮔ", "ꮕ", "ꮖ", "ꮗ", "ꮘ", "ꮙ", "ꮚ",
    "ꮛ", "ꮜ", "ꮝ", "ꮞ", "ꮟ", "ꮠ", "ꮡ", "ꮢ", "ꮣ", "ꮤ", "ꮥ", "ꮦ",
    "ꮧ", "ꮨ", "ꮩ", "ꮪ", "ꮫ", "ꮬ", "ꮭ", "ꮮ", "ꮯ", "ꮰ", "ꮱ", "ꮲ",
    "ꮳ", "ꮴ", "ꮵ", "ꮶ", "ꮷ", "ꮸ", "ꮹ", "ꮺ", "ꮻ", "ꮼ", "ꮽ", "ꮾ",
    "ꮿ", "U+FB00", "U+FB01", "U+FB02", "U+FB03", "U+FB04", "U+FB05", "U+FB06", "U+FB13", "U+FB14", "U+FB15", "U+FB16",
    "U+FB17", "U+FF41", "U+FF42", "U+FF43", "U+FF44", "U+FF45", "U+FF46", "U+FF47", "U+FF48", "U+FF49", "U+FF4A", "U+FF4B",
    "U+FF4C", "U+FF4D", "U+FF4E", "U+FF4F", "U+FF50", "U+FF51", "U+FF52", "U+FF53", "U+FF54", "U+FF55", "U+FF56", "U+FF57",
    "U+FF58", "U+FF59", "U+FF5A", "U+10428", "U+10429", "U+1042A", "U+1042B", "U+1042C", "U+1042D", "U+1042E", "U+1042F", "U+10430",
    "U+10431", "U+10432", "U+10433", "U+10434", "U+10435", "U+10436", "U+10437", "U+10438", "U+10439", "U+1043A", "U+1043B", "U+1043C",
    "U+1043D", "U+1043E", "U+1043F", "U+10440", "U+10441", "U+10442", "U+10443", "U+10444", "U+10445", "U+10446", "U+10447", "U+10448",
    "U+10449", "U+1044A", "U+1044B", "U+1044C", "U+1044D", "U+1044E", "U+1044F", "U+104D8", "U+104D9", "U+104DA", "U+104DB", "U+104DC",
    "U+104DD", "U+104DE", "U+104DF", "U+104E0", "U+104E1", "U+104E2", "U+104E3", "U+104E4", "U+104E5", "U+104E6", "U+104E7", "U+104E8",
    "U+104E9", "U+104EA", "U+104EB", "U+104EC", "U+104ED", "U+104EE", "U+104EF", "U+104F0", "U+104F1", "U+104F2", "U+104F3", "U+104F4",
    "U+104F5", "U+104F6", "U+104F7", "U+104F8", "U+104F9", "U+104FA", "U+104FB", "U+10597", "U+10598", "U+10599", "U+1059A", "U+1059B",
    "U+1059C", "U+1059D", "U+1059E", "U+1059F", "U+105A0", "U+105A1", "U+105A3", "U+105A4", "U+105A5", "U+105A6", "U+105A7", "U+105A8",
    "U+105A9", "U+105AA", "U+105AB", "U+105AC", "U+105AD", "U+105AE", "U+105AF", "U+105B0", "U+105B1", "U+105B3", "U+105B4", "U+105B5",
    "U+105B6", "U+105B7", "U+105B8", "U+105B9", "U+105BB", "U+105BC", "U+10CC0", "U+10CC1", "U+10CC2", "U+10CC3", "U+10CC4", "U+10CC5",
    "U+10CC6", "U+10CC7", "U+10CC8", "U+10CC9", "U+10CCA", "U+10CCB", "U+10CCC", "U+10CCD", "U+10CCE", "U+10CCF", "U+10CD0", "U+10CD1",
    "U+10CD2", "U+10CD3", "U+10CD4", "U+10CD5", "U+10CD6", "U+10CD7", "U+10CD8", "U+10CD9", "U+10CDA", "U+10CDB", "U+10CDC", "U+10CDD",
    "U+10CDE", "U+10CDF", "U+10CE0", "U+10CE1", "U+10CE2", "U+10CE3", "U+10CE4", "U+10CE5", "U+10CE6", "U+10CE7", "U+10CE8", "U+10CE9",
    "U+10CEA", "U+10CEB", "U+10CEC", "U+10CED", "U+10CEE", "U+10CEF", "U+10CF0", "U+10CF1", "U+10CF2", "U+118C0", "U+118C1", "U+118C2",
    "U+118C3", "U+118C4", "U+118C5", "U+118C6", "U+118C7", "U+118C8", "U+118C9", "U+118CA", "U+118CB", "U+118CC", "U+118CD", "U+118CE",
    "U+118CF", "U+118D0", "U+118D1", "U+118D2", "U+118D3", "U+118D4", "U+118D5", "U+118D6", "U+118D7", "U+118D8", "U+118D9", "U+118DA",
    "U+118DB", "U+118DC", "U+118DD", "U+118DE", "U+118DF", "U+16E60", "U+16E61", "U+16E62", "U+16E63", "U+16E64", "U+16E65", "U+16E66",
    "U+16E67", "U+16E68", "U+16E69", "U+16E6A", "U+16E6B", "U+16E6C", "U+16E6D", "U+16E6E", "U+16E6F", "U+16E70", "U+16E71", "U+16E72",
    "U+16E73", "U+16E74", "U+16E75", "U+16E76", "U+16E77", "U+16E78", "U+16E79", "U+16E7A", "U+16E7B", "U+16E7C", "U+16E7D", "U+16E7E",
    "U+16E7F", "U+1E922", "U+1E923", "U+1E924", "U+1E925", "U+1E926", "U+1E927", "U+1E928", "U+1E929", "U+1E92A", "U+1E92B", "U+1E92C",
    "U+1E92D", "U+1E92E", "U+1E92F", "U+1E930", "U+1E931", "U+1E932", "U+1E933", "U+1E934", "U+1E935", "U+1E936", "U+1E937", "U+1E938",
    "U+1E939", "U+1E93A", "U+1E93B", "U+1E93C", "U+1E93D", "U+1E93E", "U+1E93F", "U+1E940", "U+1E941", "U+1E942", "U+1E943"
>>

UpperForms == <<
    <<"Μ">>, <<"S", "S">>, <<"À">>, <<"Á">>, <<"Â">>, <<"Ã">>, <<"Ä">>, <<"Å">>,
    <<"Æ">>, <<"Ç">>, <<"È">>, <<"É">>, <<"Ê">>, <<"Ë">>, <<"Ì">>, <<"Í">>,
    <<"Î">>, <<"Ï">>, <<"Ð">>, <<"Ñ">>, <<"Ò">>, <<"Ó">>, <<"Ô">>, <<"Õ">>,
    <<"Ö">>, <<"Ø">>, <<"Ù">>, <<"Ú">>, <<"Û">>, <<"Ü">>, <<"Ý">>, <<"Þ">>,
    <<"U+0178">>, <<"U+0100">>, <<"U+0102">>, <<"U+0104">>, <<"U+0106">>, <<"U+0108">>, <<"U+010A">>, <<"U+010C">>,
    <<"U+010E">>, <<"U+0110">>, <<"U+0112">>, <<"U+0114">>, <<"U+0116">>, <<"U+0118">>, <<"U+011A">>, <<"U+011C">>,
    <<"U+011E">>, <<"U+0120">>, <<"U+0122">>, <<"U+0124">>, <<"U+0126">>, <<"U+0128">>, <<"U+012A">>, <<"U+012C">>,
    <<"U+012E">>, <<"I">>, <<"U+0132">>, <<"U+0134">>, <<"U+0136">>, <<"U+0139">>, <<"U+013B">>, <<"U+013D">>,
    <<"U+013F">>, <<"U+0141">>, <<"U+0143">>, <<"U+0145">>, <<"U+0147">>, <<"ʼ", "N">>, <<"U+014A">>, <<"U+014C">>,
    <<"U+014E">>, <<"U+0150">>, <<"U+0152">>, <<"U+0154">>, <<"U+0156">>, <<"U+0158">>, <<"U+015A">>, <<"U+015C">>,
    <<"U+015E">>, <<"U+0160">>, <<"U+0162">>, <<"U+0164">>, <<"U+0166">>, <<"U+0168">>, <<"U+016A">>, <<"U+016C">>,
    <<"U+016E">>, <<"U+0170">>, <<"U+0172">>, <<"U+0174">>, <<"U+0176">>, <<"U+0179">>, <<"U+017B">>, <<"U+017D">>,
    <<"S">>, <<"U+0243">>, <<"Ƃ">>, <<"Ƅ">>, <<"Ƈ">>, <<"Ƌ">>, <<"Ƒ">>, <<"Ƕ">>,
    <<"Ƙ">>, <<"U+023D">>, <<"U+0220">>, <<"Ơ">>, <<"Ƣ">>, <<"Ƥ">>, <<"Ƨ">>, <<"Ƭ">>,
    <<"Ư">>, <<"Ƴ">>, <<"Ƶ">>, <<"Ƹ">>, <<"Ƽ">>, <<"Ƿ">>, <<"Ǆ">>, <<"Ǆ">>,
    <<"Ǉ">>, <<"Ǉ">>, <<"Ǌ">>, <<"Ǌ">>, <<"Ǎ">>, <<"Ǐ">>, <<"Ǒ">>, <<"Ǔ">>,
    <<"Ǖ">>, <<"Ǘ">>, <<"Ǚ">>, <<"Ǜ">>, <<"Ǝ">>, <<"Ǟ">>, <<"Ǡ">>, <<"Ǣ">>,
    <<"Ǥ">>, <<"Ǧ">>, <<"Ǩ">>, <<"Ǫ">>, <<"Ǭ">>, <<"Ǯ">>, <<"J", "U+030C">>, <<"Ǳ">>,
    <<"Ǳ">>, <<"Ǵ">>, <<"Ǹ">>, <<"Ǻ">>, <<"Ǽ">>, <<"Ǿ">>, <<"U+0200">>, <<"U+0202">>,
    <<"U+0204">>, <<"U+0206">>, <<"U+0208">>, <<"U+020A">>, <<"U+020C">>, <<"U+020E">>, <<"U+0210">>, <<"U+0212">>,
    <<"U+0214">>, <<"U+0216">>, <<"U+0218">>, <<"U+021A">>, <<"U+021C">>, <<"U+021E">>, <<"U+0222">>, <<"U+0224">>,
    <<"U+0226">>, <<"U+0228">>, <<"U+022A">>, <<"U+022C">>, <<"U+022E">>, <<"U+0230">>, <<"U+0232">>, <<"U+023B">>,
    <<"U+2C7E">>, <<"U+2C7F">>, <<"U+0241">>, <<"U+0246">>, <<"U+0248">>, <<"U+024A">>, <<"U+024C">>, <<"U+024E">>,
    <<"U+2C6F">>, <<"U+2C6D">>, <<"U+2C70">>, <<"Ɓ">>, <<"Ɔ">>, <<"Ɖ">>, <<"Ɗ">>, <<"Ə">>,
    <<"Ɛ">>, <<"Ɜ">>, <<"Ɠ">>, <<"Ɡ">>, <<"Ɣ">>, <<"Ɥ">>, <<"Ɦ">>, <<"Ɨ">>,
    <<"Ɩ">>, <<"Ɪ">>, <<"U+2C62">>, <<"Ɬ">>, <<"Ɯ">>, <<"U+2C6E">>, <<"Ɲ">>, <<"Ɵ">>,
    <<"U+2C64">>, <<"Ʀ">>, <<"Ʂ">>, <<"Ʃ">>, <<"Ʇ">>, <<"Ʈ">>, <<"U+0244">>, <<"Ʊ">>,
    <<"Ʋ">>, <<"U+0245">>, <<"Ʒ">>, <<"Ʝ">>, <<"Ʞ">>, <<"Ι">>, <<"U+0370">>, <<"U+0372">>,
    <<"U+0376">>, <<"Ͻ">>, <<"Ͼ">>, <<"Ͽ">>, <<"Ι", "U+0308", "U+0301">>, <<"Ά">>, <<"Έ">>, <<"Ή">>,
    <<"Ί">>, <<"Υ", "U+0308", "U+0301">>, <<"Α">>, <<"Β">>, <<"Γ">>, <<"Δ">>, <<"Ε">>, <<"Ζ">>,
    <<"Η">>, <<"Θ">>, <<"Ι">>, <<"Κ">>, <<"Λ">>, <<"Μ">>, <<"Ν">>, <<"Ξ">>,
    <<"Ο">>, <<"Π">>, <<"Ρ">>, <<"Σ">>, <<"Σ">>, <<"Τ">>, <<"Υ">>, <<"Φ">>,
    <<"Χ">>, <<"Ψ">>, <<"Ω">>, <<"Ϊ">>, <<"Ϋ">>, <<"Ό">>, <<"Ύ">>, <<"Ώ">>,
    <<"Β">>, <<"Θ">>, <<"Φ">>, <<"Π">>, <<"Ϗ">>, <<"Ϙ">>, <<"Ϛ">>, <<"Ϝ">>,
    <<"Ϟ">>, <<"Ϡ">>, <<"Ϣ">>, <<"Ϥ">>, <<"Ϧ">>, <<"Ϩ">>, <<"Ϫ">>, <<"Ϭ">>,
    <<"Ϯ">>, <<"Κ">>, <<"Ρ">>, <<"Ϲ">>, <<"U+037F">>, <<"Ε">>, <<"Ϸ">>, <<"Ϻ">>,
    <<"U+0410">>, <<"U+0411">>, <<"U+0412">>, <<"U+0413">>, <<"U+0414">>, <<"U+0415">>, <<"U+0416">>, <<"U+0417">>,
    <<"U+0418">>, <<"U+0419">>, <<"U+041A">>, <<"U+041B">>, <<"U+041C">>, <<"U+041D">>, <<"U+041E">>, <<"U+041F">>,
    <<"U+0420">>, <<"U+0421">>, <<"U+0422">>, <<"U+0423">>, <<"U+0424">>, <<"U+0425">>, <<"U+0426">>, <<"U+0427">>,
    <<"U+0428">>, <<"U+0429">>, <<"U+042A">>, <<"U+042B">>, <<"U+042C">>, <<"U+042D">>, <<"U+042E">>, <<"U+042F">>,
    <<"U+0400">>, <<"U+0401">>, <<"U+0402">>, <<"U+0403">>, <<"U+0404">>, <<"U+0405">>, <<"U+0406">>, <<"U+0407">>,
    <<"U+0408">>, <<"U+0409">>, <<"U+040A">>, <<"U+040B">>, <<"U+040C">>, <<"U+040D">>, <<"U+040E">>, <<"U+040F">>,
    <<"U+0460">>, <<"U+0462">>, <<"U+0464">>, <<"U+0466">>, <<"U+0468">>, <<"U+046A">>, <<"U+046C">>, <<"U+046E">>,
    <<"U+0470">>, <<"U+0472">>, <<"U+0474">>, <<"U+0476">>, <<"U+0478">>, <<"U+047A">>, <<"U+047C">>, <<"U+047E">>,
    <<"Ҁ">>, <<"Ҋ">>, <<"Ҍ">>, <<"Ҏ">>, <<"Ґ">>, <<"Ғ">>, <<"Ҕ">>, <<"Җ">>,
    <<"Ҙ">>, <<"Қ">>, <<"Ҝ">>, <<"Ҟ">>, <<"Ҡ">>, <<"Ң">>, <<"Ҥ">>, <<"Ҧ">>,
    <<"Ҩ">>, <<"Ҫ">>, <<"Ҭ">>, <<"Ү">>, <<"Ұ">>, <<"Ҳ">>, <<"Ҵ">>, <<"Ҷ">>,
    <<"Ҹ">>, <<"Һ">>, <<"Ҽ">>, <<"Ҿ">>, <<"Ӂ">>, <<"Ӄ">>, <<"Ӆ">>, <<"Ӈ">>,
    <<"Ӊ">>, <<"Ӌ">>, <<"Ӎ">>, <<"Ӏ">>, <<"Ӑ">>, <<"Ӓ">>, <<"Ӕ">>, <<"Ӗ">>,
    <<"Ә">>, <<"Ӛ">>, <<"Ӝ">>, <<"Ӟ">>, <<"Ӡ">>, <<"Ӣ">>, <<"Ӥ">>, <<"Ӧ">>,
    <<"Ө">>, <<"Ӫ">>, <<"Ӭ">>, <<"Ӯ">>, <<"Ӱ">>, <<"Ӳ">>, <<"Ӵ">>, <<"Ӷ">>,
    <<"Ӹ">>, <<"Ӻ">>, <<"Ӽ">>, <<"Ӿ">>, <<"U+0500">>, <<"U+0502">>, <<"U+0504">>, <<"U+0506">>,
    <<"U+0508">>, <<"U+050A">>, <<"U+050C">>, <<"U+050E">>, <<"U+0510">>, <<"U+0512">>, <<"U+0514">>, <<"U+0516">>,
    <<"U+0518">>, <<"U+051A">>, <<"U+051C">>, <<"U+051E">>, <<"U+0520">>, <<"U+0522">>, <<"U+0524">>, <<"U+0526">>,
    <<"U+0528">>, <<"U+052A">>, <<"U+052C">>, <<"U+052E">>, <<"U+0531">>, <<"U+0532">>, <<"U+0533">>, <<"U+0534">>,
    <<"U+0535">>, <<"U+0536">>, <<"U+0537">>, <<"U+0538">>, <<"U+0539">>, <<"U+053A">>, <<"U+053B">>, <<"U+053C">>,
    <<"U+053D">>, <<"U+053E">>, <<"U+053F">>, <<"U+0540">>, <<"U+0541">>, <<"U+0542">>, <<"U+0543">>, <<"U+0544">>,
    <<"U+0545">>, <<"U+0546">>, <<"U+0547">>, <<"U+0548">>, <<"U+0549">>, <<"U+054A">>, <<"U+054B">>, <<"U+054C">>,
    <<"U+054D">>, <<"U+054E">>, <<"U+054F">>, <<"U+0550">>, <<"U+0551">>, <<"U+0552">>, <<"U+0553">>, <<"U+0554">>,
    <<"U+0555">>, <<"U+0556">>, <<"U+0535", "U+0552">>, <<"Ა">>, <<"Ბ">>, <<"Გ">>, <<"Დ">>, <<"Ე">>,
    <<"Ვ">>, <<"Ზ">>, <<"Თ">>, <<"Ი">>, <<"Კ">>, <<"Ლ">>, <<"Მ">>, <<"Ნ">>,
    <<"Ო">>, <<"Პ">>, <<"Ჟ">>, <<"Რ">>, <<"Ს">>, <<"Ტ">>, <<"Უ">>, <<"Ფ">>,
    <<"Ქ">>, <<"Ღ">>, <<"Ყ">>, <<"Შ">>, <<"Ჩ">>, <<"Ც">>, <<"Ძ">>, <<"Წ">>,
    <<"Ჭ">>, <<"Ხ">>, <<"Ჯ">>, <<"Ჰ">>, <<"Ჱ">>, <<"Ჲ">>, <<"Ჳ">>, <<"Ჴ">>,
    <<"Ჵ">>, <<"Ჶ">>, <<"Ჷ">>, <<"Ჸ">>, <<"Ჹ">>, <<"Ჺ">>, <<"Ჽ">>, <<"Ჾ">>,
    <<"Ჿ">>, <<"Ᏸ">>, <<"Ᏹ">>, <<"Ᏺ">>, <<"Ᏻ">>, <<"Ᏼ">>, <<"Ᏽ">>, <<"U+0412">>,
    <<"U+0414">>, <<"U+041E">>, <<"U+0421">>, <<"U+0422">>, <<"U+0422">>, <<"U+042A">>, <<"U+0462">>, <<"U+A64A">>,
    <<"U+A77D">>, <<"U+2C63">>, <<"Ᶎ">>, <<"U+1E00">>, <<"U+1E02">>, <<"U+1E04">>, <<"U+1E06">>, <<"U+1E08">>,
    <<"U+1E0A">>, <<"U+1E0C">>, <<"U+1E0E">>, <<"U+1E10">>, <<"U+1E12">>, <<"U+1E14">>, <<"U+1E16">>, <<"U+1E18">>,
    <<"U+1E1A">>, <<"U+1E1C">>, <<"U+1E1E">>, <<"U+1E20">>, <<"U+1E22">>, <<"U+1E24">>, <<"U+1E26">>, <<"U+1E28">>,
    <<"U+1E2A">>, <<"U+1E2C">>, <<"U+1E2E">>, <<"U+1E30">>, <<"U+1E32">>, <<"U+1E34">>, <<"U+1E36">>, <<"U+1E38">>,
    <<"U+1E3A">>, <<"U+1E3C">>, <<"U+1E3E">>, <<"U+1E40">>, <<"U+1E42">>, <<"U+1E44">>, <<"U+1E46">>, <<"U+1E48">>,
    <<"U+1E4A">>, <<"U+1E4C">>, <<"U+1E4E">>, <<"U+1E50">>, <<"U+1E52">>, <<"U+1E54">>, <<"U+1E56">>, <<"U+1E58">>,
    <<"U+1E5A">>, <<"U+1E5C">>, <<"U+1E5E">>, <<"U+1E60">>, <<"U+1E62">>, <<"U+1E64">>, <<"U+1E66">>, <<"U+1E68">>,
    <<"U+1E6A">>, <<"U+1E6C">>, <<"U+1E6E">>, <<"U+1E70">>, <<"U+1E72">>, <<"U+1E74">>, <<"U+1E76">>, <<"U+1E78">>,
    <<"U+1E7A">>, <<"U+1E7C">>, <<"U+1E7E">>, <<"Ẁ">>, <<"Ẃ">>, <<"Ẅ">>, <<"Ẇ">>, <<"Ẉ">>,
    <<"Ẋ">>, <<"Ẍ">>, <<"Ẏ">>, <<"Ẑ">>, <<"Ẓ">>, <<"Ẕ">>, <<"H", "U+0331">>, <<"T", "U+0308">>,
    <<"W", "U+030A">>, <<"Y", "U+030A">>, <<"A", "ʾ">>, <<"U+1E60">>, <<"Ạ">>, <<"Ả">>, <<"Ấ">>, <<"Ầ">>,
    <<"Ẩ">>, <<"Ẫ">>, <<"Ậ">>, <<"Ắ">>, <<"Ằ">>, <<"Ẳ">>, <<"Ẵ">>, <<"Ặ">>,
    <<"Ẹ">>, <<"Ẻ">>, <<"Ẽ">>, <<"Ế">>, <<"Ề">>, <<"Ể">>, <<"Ễ">>, <<"Ệ">>,
    <<"Ỉ">>, <<"Ị">>, <<"Ọ">>, <<"Ỏ">>, <<"Ố">>, <<"Ồ">>, <<"Ổ">>, <<"Ỗ">>,
    <<"Ộ">>, <<"Ớ">>, <<"Ờ">>, <<"Ở">>, <<"Ỡ">>, <<"Ợ">>, <<"Ụ">>, <<"Ủ">>,
    <<"Ứ">>, <<"Ừ">>, <<"Ử">>, <<"Ữ">>, <<"Ự">>, <<"Ỳ">>, <<"Ỵ">>, <<"Ỷ">>,
    <<"Ỹ">>, <<"Ỻ">>, <<"Ỽ">>, <<"Ỿ">>, <<"U+1F08">>, <<"U+1F09">>, <<"U+1F0A">>, <<"U+1F0B">>,
    <<"U+1F0C">>, <<"U+1F0D">>, <<"U+1F0E">>, <<"U+1F0F">>, <<"U+1F18">>, <<"U+1F19">>, <<"U+1F1A">>, <<"U+1F1B">>,
    <<"U+1F1C">>, <<"U+1F1D">>, <<"U+1F28">>, <<"U+1F29">>, <<"U+1F2A">>, <<"U+1F2B">>, <<"U+1F2C">>, <<"U+1F2D">>,
    <<"U+1F2E">>, <<"U+1F2F">>, <<"U+1F38">>, <<"U+1F39">>, <<"U+1F3A">>, <<"U+1F3B">>, <<"U+1F3C">>, <<"U+1F3D">>,
    <<"U+1F3E">>, <<"U+1F3F">>, <<"U+1F48">>, <<"U+1F49">>, <<"U+1F4A">>, <<"U+1F4B">>, <<"U+1F4C">>, <<"U+1F4D">>,
    <<"Υ", "U+0313">>, <<"U+1F59">>, <<"Υ", "U+0313", "U+0300">>, <<"U+1F5B">>, <<"Υ", "U+0313", "U+0301">>, <<"U+1F5D">>, <<"Υ", "U+0313", "U+0342">>, <<"U+1F5F">>,
    <<"U+1F68">>, <<"U+1F69">>, <<"U+1F6A">>, <<"U+1F6B">>, <<"U+1F6C">>, <<"U+1F6D">>, <<"U+1F6E">>, <<"U+1F6F">>,
    <<"Ὰ">>, <<"Ά">>, <<"Ὲ">>, <<"Έ">>, <<"Ὴ">>, <<"Ή">>, <<"Ὶ">>, <<"Ί">>,
    <<"Ὸ">>, <<"Ό">>, <<"Ὺ">>, <<"Ύ">>, <<"Ὼ">>, <<"Ώ">>, <<"U+1F08", "Ι">>, <<"U+1F09", "Ι">>,
    <<"U+1F0A", "Ι">>, <<"U+1F0B", "Ι">>, <<"U+1F0C", "Ι">>, <<"U+1F0D", "Ι">>, <<"U+1F0E", "Ι">>, <<"U+1F0F", "Ι">>, <<"U+1F08", "Ι">>, <<"U+1F09", "Ι">>,
    <<"U+1F0A", "Ι">>, <<"U+1F0B", "Ι">>, <<"U+1F0C", "Ι">>, <<"U+1F0D", "Ι">>, <<"U+1F0E", "Ι">>, <<"U+1F0F", "Ι">>, <<"U+1F28", "Ι">>, <<"U+1F29", "Ι">>,
    <<"U+1F2A", "Ι">>, <<"U+1F2B", "Ι">>, <<"U+1F2C", "Ι">>, <<"U+1F2D", "Ι">>, <<"U+1F2E", "Ι">>, <<"U+1F2F", "Ι">>, <<"U+1F28", "Ι">>, <<"U+1F29", "Ι">>,
    <<"U+1F2A", "Ι">>, <<"U+1F2B", "Ι">>, <<"U+1F2C", "Ι">>, <<"U+1F2D", "Ι">>, <<"U+1F2E", "Ι">>, <<"U+1F2F", "Ι">>, <<"U+1F68", "Ι">>, <<"U+1F69", "Ι">>,
    <<"U+1F6A", "Ι">>, <<"U+1F6B", "Ι">>, <<"U+1F6C", "Ι">>, <<"U+1F6D", "Ι">>, <<"U+1F6E", "Ι">>, <<"U+1F6F", "Ι">>, <<"U+1F68", "Ι">>, <<"U+1F69", "Ι">>,
    <<"U+1F6A", "Ι">>, <<"U+1F6B", "Ι">>, <<"U+1F6C", "Ι">>, <<"U+1F6D", "Ι">>, <<"U+1F6E", "Ι">>, <<"U+1F6F", "Ι">>, <<"Ᾰ">>, <<"Ᾱ">>,
    <<"Ὰ", "Ι">>, <<"Α", "Ι">>, <<"Ά", "Ι">>, <<"Α", "U+0342">>, <<"Α", "U+0342", "Ι">>, <<"Α", "Ι">>, <<"Ι">>, <<"Ὴ", "Ι">>,
    <<"Η", "Ι">>, <<"Ή", "Ι">>, <<"Η", "U+0342">>, <<"Η", "U+0342", "Ι">>, <<"Η", "Ι">>, <<"Ῐ">>, <<"Ῑ">>, <<"Ι", "U+0308", "U+0300">>,
    <<"Ι", "U+0308", "U+0301">>, <<"Ι", "U+0342">>, <<"Ι", "U+0308", "U+0342">>, <<"Ῠ">>, <<"Ῡ">>, <<"Υ", "U+0308", "U+0300">>, <<"Υ", "U+0308", "U+0301">>, <<"Ρ", "U+0313">>,
    <<"Ῥ">>, <<"Υ", "U+0342">>, <<"Υ", "U+0308", "U+0342">>, <<"Ὼ", "Ι">>, <<"Ω", "Ι">>, <<"Ώ", "Ι">>, <<"Ω", "U+0342">>, <<"Ω", "U+0342", "Ι">>,
    <<"Ω", "Ι">>, <<"U+2132">>, <<"U+2160">>, <<"U+2161">>, <<"U+2162">>, <<"U+2163">>, <<"U+2164">>, <<"U+2165">>,
    <<"U+2166">>, <<"U+2167">>, <<"U+2168">>, <<"U+2169">>, <<"U+216A">>, <<"U+216B">>, <<"U+216C">>, <<"U+216D">>,
    <<"U+216E">>, <<"U+216F">>, <<"Ↄ">>, <<"Ⓐ">>, <<"Ⓑ">>, <<"Ⓒ">>, <<"Ⓓ">>, <<"Ⓔ">>,
    <<"Ⓕ">>, <<"Ⓖ">>, <<"Ⓗ">>, <<"Ⓘ">>, <<"Ⓙ">>, <<"Ⓚ">>, <<"Ⓛ">>, <<"Ⓜ">>,
    <<"Ⓝ">>, <<"Ⓞ">>, <<"Ⓟ">>, <<"Ⓠ">>, <<"Ⓡ">>, <<"Ⓢ">>, <<"Ⓣ">>, <<"Ⓤ">>,
    <<"Ⓥ">>, <<"Ⓦ">>, <<"Ⓧ">>, <<"Ⓨ">>, <<"Ⓩ">>, <<"U+2C00">>, <<"U+2C01">>, <<"U+2C02">>,
    <<"U+2C03">>, <<"U+2C04">>, <<"U+2C05">>, <<"U+2C06">>, <<"U+2C07">>, <<"U+2C08">>, <<"U+2C09">>, <<"U+2C0A">>,
    <<"U+2C0B">>, <<"U+2C0C">>, <<"U+2C0D">>, <<"U+2C0E">>, <<"U+2C0F">>, <<"U+2C10">>, <<"U+2C11">>, <<"U+2C12">>,
    <<"U+2C13">>, <<"U+2C14">>, <<"U+2C15">>, <<"U+2C16">>, <<"U+2C17">>, <<"U+2C18">>, <<"U+2C19">>, <<"U+2C1A">>,
    <<"U+2C1B">>, <<"U+2C1C">>, <<"U+2C1D">>, <<"U+2C1E">>, <<"U+2C1F">>, <<"U+2C20">>, <<"U+2C21">>, <<"U+2C22">>,
    <<"U+2C23">>, <<"U+2C24">>, <<"U+2C25">>, <<"U+2C26">>, <<"U+2C27">>, <<"U+2C28">>, <<"U+2C29">>, <<"U+2C2A">>,
    <<"U+2C2B">>, <<"U+2C2C">>, <<"U+2C2D">>, <<"U+2C2E">>, <<"U+2C2F">>, <<"U+2C60">>, <<"U+023A">>, <<"U+023E">>,
    <<"U+2C67">>, <<"U+2C69">>, <<"U+2C6B">>, <<"U+2C72">>, <<"U+2C75">>, <<"Ⲁ">>, <<"Ⲃ">>, <<"Ⲅ">>,
    <<"Ⲇ">>, <<"Ⲉ">>, <<"Ⲋ">>, <<"Ⲍ">>, <<"Ⲏ">>, <<"Ⲑ">>, <<"Ⲓ">>, <<"Ⲕ">>,
    <<"Ⲗ">>, <<"Ⲙ">>, <<"Ⲛ">>, <<"Ⲝ">>, <<"Ⲟ">>, <<"Ⲡ">>, <<"Ⲣ">>, <<"Ⲥ">>,
    <<"Ⲧ">>, <<"Ⲩ">>, <<"Ⲫ">>, <<"Ⲭ">>, <<"Ⲯ">>, <<"Ⲱ">>, <<"Ⲳ">>, <<"Ⲵ">>,
    <<"Ⲷ">>, <<"Ⲹ">>, <<"Ⲻ">>, <<"Ⲽ">>, <<"Ⲿ">>, <<"Ⳁ">>, <<"Ⳃ">>, <<"Ⳅ">>,
    <<"Ⳇ">>, <<"Ⳉ">>, <<"Ⳋ">>, <<"Ⳍ">>, <<"Ⳏ">>, <<"Ⳑ">>, <<"Ⳓ">>, <<"Ⳕ">>,
    <<"Ⳗ">>, <<"Ⳙ">>, <<"Ⳛ">>, <<"Ⳝ">>, <<"Ⳟ">>, <<"Ⳡ">>, <<"Ⳣ">>, <<"Ⳬ">>,
    <<"Ⳮ">>, <<"Ⳳ">>, <<"Ⴀ">>, <<"Ⴁ">>, <<"Ⴂ">>, <<"Ⴃ">>, <<"Ⴄ">>, <<"Ⴅ">>,
    <<"Ⴆ">>, <<"Ⴇ">>, <<"Ⴈ">>, <<"Ⴉ">>, <<"Ⴊ">>, <<"Ⴋ">>, <<"Ⴌ">>, <<"Ⴍ">>,
    <<"Ⴎ">>, <<"Ⴏ">>, <<"Ⴐ">>, <<"Ⴑ">>, <<"Ⴒ">>, <<"Ⴓ">>, <<"Ⴔ">>, <<"Ⴕ">>,
    <<"Ⴖ">>, <<"Ⴗ">>, <<"Ⴘ">>, <<"Ⴙ">>, <<"Ⴚ">>, <<"Ⴛ">>, <<"Ⴜ">>, <<"Ⴝ">>,
    <<"Ⴞ">>, <<"Ⴟ">>, <<"Ⴠ">>, <<"Ⴡ">>, <<"Ⴢ">>, <<"Ⴣ">>, <<"Ⴤ">>, <<"Ⴥ">>,
    <<"Ⴧ">>, <<"Ⴭ">>, <<"U+A640">>, <<"U+A642">>, <<"U+A644">>, <<"U+A646">>, <<"U+A648">>, <<"U+A64A">>,
    <<"U+A64C">>, <<"U+A64E">>, <<"U+A650">>, <<"U+A652">>, <<"U+A654">>, <<"U+A656">>, <<"U+A658">>, <<"U+A65A">>,
    <<"U+A65C">>, <<"U+A65E">>, <<"U+A660">>, <<"U+A662">>, <<"U+A664">>, <<"U+A666">>, <<"U+A668">>, <<"U+A66A">>,
    <<"U+A66C">>, <<"Ꚁ">>, <<"Ꚃ">>, <<"Ꚅ">>, <<"Ꚇ">>, <<"Ꚉ">>, <<"Ꚋ">>, <<"Ꚍ">>,
    <<"Ꚏ">>, <<"Ꚑ">>, <<"Ꚓ">>, <<"Ꚕ">>, <<"Ꚗ">>, <<"Ꚙ">>, <<"Ꚛ">>, <<"U+A722">>,
    <<"U+A724">>, <<"U+A726">>, <<"U+A728">>, <<"U+A72A">>, <<"U+A72C">>, <<"U+A72E">>, <<"U+A732">>, <<"U+A734">>,
    <<"U+A736">>, <<"U+A738">>, <<"U+A73A">>, <<"U+A73C">>, <<"U+A73E">>, <<"U+A740">>, <<"U+A742">>, <<"U+A744">>,
    <<"U+A746">>, <<"U+A748">>, <<"U+A74A">>, <<"U+A74C">>, <<"U+A74E">>, <<"U+A750">>, <<"U+A752">>, <<"U+A754">>,
    <<"U+A756">>, <<"U+A758">>, <<"U+A75A">>, <<"U+A75C">>, <<"U+A75E">>, <<"U+A760">>, <<"U+A762">>, <<"U+A764">>,
    <<"U+A766">>, <<"U+A768">>, <<"U+A76A">>, <<"U+A76C">>, <<"U+A76E">>, <<"U+A779">>, <<"U+A77B">>, <<"U+A77E">>,
    <<"Ꞁ">>, <<"Ꞃ">>, <<"Ꞅ">>, <<"Ꞇ">>, <<"Ꞌ">>, <<"Ꞑ">>, <<"Ꞓ">>, <<"Ꞔ">>,
    <<"Ꞗ">>, <<"Ꞙ">>, <<"Ꞛ">>, <<"Ꞝ">>, <<"Ꞟ">>, <<"Ꞡ">>, <<"Ꞣ">>, <<"Ꞥ">>,
    <<"Ꞧ">>, <<"Ꞩ">>, <<"Ꞵ">>, <<"Ꞷ">>, <<"Ꞹ">>, <<"Ꞻ">>, <<"Ꞽ">>, <<"Ꞿ">>,
    <<"Ꟁ">>, <<"Ꟃ">>, <<"Ꟈ">>, <<"Ꟊ">>, <<"Ꟑ">>, <<"Ꟗ">>, <<"Ꟙ">>, <<"Ꟶ">>,
    <<"Ꭓ">>, <<"Ꭰ">>, <<"Ꭱ">>, <<"Ꭲ">>, <<"Ꭳ">>, <<"Ꭴ">>, <<"Ꭵ">>, <<"Ꭶ">>,
    <<"Ꭷ">>, <<"Ꭸ">>, <<"Ꭹ">>, <<"Ꭺ">>, <<"Ꭻ">>, <<"Ꭼ">>, <<"Ꭽ">>, <<"Ꭾ">>,
    <<"Ꭿ">>, <<"Ꮀ">>, <<"Ꮁ">>, <<"Ꮂ">>, <<"Ꮃ">>, <<"Ꮄ">>, <<"Ꮅ">>, <<"Ꮆ">>,
    <<"Ꮇ">>, <<"Ꮈ">>, <<"Ꮉ">>, <<"Ꮊ">>, <<"Ꮋ">>, <<"Ꮌ">>, <<"Ꮍ">>, <<"Ꮎ">>,
    <<"Ꮏ">>, <<"Ꮐ">>, <<"Ꮑ">>, <<"Ꮒ">>, <<"Ꮓ">>, <<"Ꮔ">>, <<"Ꮕ">>, <<"Ꮖ">>,
    <<"Ꮗ">>, <<"Ꮘ">>, <<"Ꮙ">>, <<"Ꮚ">>, <<"Ꮛ">>, <<"Ꮜ">>, <<"Ꮝ">>, <<"Ꮞ">>,
    <<"Ꮟ">>, <<"Ꮠ">>, <<"Ꮡ">>, <<"Ꮢ">>, <<"Ꮣ">>, <<"Ꮤ">>, <<"Ꮥ">>, <<"Ꮦ">>,
    <<"Ꮧ">>, <<"Ꮨ">>, <<"Ꮩ">>, <<"Ꮪ">>, <<"Ꮫ">>, <<"Ꮬ">>, <<"Ꮭ">>, <<"Ꮮ">>,
    <<"Ꮯ">>, <<"Ꮰ">>, <<"Ꮱ">>, <<"Ꮲ">>, <<"Ꮳ">>, <<"Ꮴ">>, <<"Ꮵ">>, <<"Ꮶ">>,
    <<"Ꮷ">>, <<"Ꮸ">>, <<"Ꮹ">>, <<"Ꮺ">>, <<"Ꮻ">>, <<"Ꮼ">>, <<"Ꮽ">>, <<"Ꮾ">>,
    <<"Ꮿ">>, <<"F", "F">>, <<"F", "I">>, <<"F", "L">>, <<"F", "F", "I">>, <<"F", "F", "L">>, <<"S", "T">>, <<"S", "T">>,
    <<"U+0544", "U+0546">>, <<"U+0544", "U+0535">>, <<"U+0544", "U+053B">>, <<"U+054E", "U+0546">>, <<"U+0544", "U+053D">>, <<"U+FF21">>, <<"U+FF22">>, <<"U+FF23">>,
    <<"U+FF24">>, <<"U+FF25">>, <<"U+FF26">>, <<"U+FF27">>, <<"U+FF28">>, <<"U+FF29">>, <<"U+FF2A">>, <<"U+FF2B">>,
    <<"U+FF2C">>, <<"U+FF2D">>, <<"U+FF2E">>, <<"U+FF2F">>, <<"U+FF30">>, <<"U+FF31">>, <<"U+FF32">>, <<"U+FF33">>,
    <<"U+FF34">>, <<"U+FF35">>, <<"U+FF36">>, <<"U+FF37">>, <<"U+FF38">>, <<"U+FF39">>, <<"U+FF3A">>, <<"U+10400">>,
    <<"U+10401">>, <<"U+10402">>, <<"U+10403">>, <<"U+10404">>, <<"U+10405">>, <<"U+10406">>, <<"U+10407">>, <<"U+10408">>,
    <<"U+10409">>, <<"U+1040A">>, <<"U+1040B">>, <<"U+1040C">>, <<"U+1040D">>, <<"U+1040E">>, <<"U+1040F">>, <<"U+10410">>,
    <<"U+10411">>, <<"U+10412">>, <<"U+10413">>, <<"U+10414">>, <<"U+10415">>, <<"U+10416">>, <<"U+10417">>, <<"U+10418">>,
    <<"U+10419">>, <<"U+1041A">>, <<"U+1041B">>, <<"U+1041C">>, <<"U+1041D">>, <<"U+1041E">>, <<"U+1041F">>, <<"U+10420">>,
    <<"U+10421">>, <<"U+10422">>, <<"U+10423">>, <<"U+10424">>, <<"U+10425">>, <<"U+10426">>, <<"U+10427">>, <<"U+104B0">>,
    <<"U+104B1">>, <<"U+104B2">>, <<"U+104B3">>, <<"U+104B4">>, <<"U+104B5">>, <<"U+104B6">>, <<"U+104B7">>, <<"U+104B8">>,
    <<"U+104B9">>, <<"U+104BA">>, <<"U+104BB">>, <<"U+104BC">>, <<"U+104BD">>, <<"U+104BE">>, <<"U+104BF">>, <<"U+104C0">>,
    <<"U+104C1">>, <<"U+104C2">>, <<"U+104C3">>, <<"U+104C4">>, <<"U+104C5">>, <<"U+104C6">>, <<"U+104C7">>, <<"U+104C8">>,
    <<"U+104C9">>, <<"U+104CA">>, <<"U+104CB">>, <<"U+104CC">>, <<"U+104CD">>, <<"U+104CE">>, <<"U+104CF">>, <<"U+104D0">>,
    <<"U+104D1">>, <<"U+104D2">>, <<"U+104D3">>, <<"U+10570">>, <<"U+10571">>, <<"U+10572">>, <<"U+10573">>, <<"U+10574">>,
    <<"U+10575">>, <<"U+10576">>, <<"U+10577">>, <<"U+10578">>, <<"U+10579">>, <<"U+1057A">>, <<"U+1057C">>, <<"U+1057D">>,
    <<"U+1057E">>, <<"U+1057F">>, <<"U+10580">>, <<"U+10581">>, <<"U+10582">>, <<"U+10583">>, <<"U+10584">>, <<"U+10585">>,
    <<"U+10586">>, <<"U+10587">>, <<"U+10588">>, <<"U+10589">>, <<"U+1058A">>, <<"U+1058C">>, <<"U+1058D">>, <<"U+1058E">>,
    <<"U+1058F">>, <<"U+10590">>, <<"U+10591">>, <<"U+10592">>, <<"U+10594">>, <<"U+10595">>, <<"U+10C80">>, <<"U+10C81">>,
    <<"U+10C82">>, <<"U+10C83">>, <<"U+10C84">>, <<"U+10C85">>, <<"U+10C86">>, <<"U+10C87">>, <<"U+10C88">>, <<"U+10C89">>,
    <<"U+10C8A">>, <<"U+10C8B">>, <<"U+10C8C">>, <<"U+10C8D">>, <<"U+10C8E">>, <<"U+10C8F">>, <<"U+10C90">>, <<"U+10C91">>,
    <<"U+10C92">>, <<"U+10C93">>, <<"U+10C94">>, <<"U+10C95">>, <<"U+10C96">>, <<"U+10C97">>, <<"U+10C98">>, <<"U+10C99">>,
    <<"U+10C9A">>, <<"U+10C9B">>, <<"U+10C9C">>, <<"U+10C9D">>, <<"U+10C9E">>, <<"U+10C9F">>, <<"U+10CA0">>, <<"U+10CA1">>,
    <<"U+10CA2">>, <<"U+10CA3">>, <<"U+10CA4">>, <<"U+10CA5">>, <<"U+10CA6">>, <<"U+10CA7">>, <<"U+10CA8">>, <<"U+10CA9">>,
    <<"U+10CAA">>, <<"U+10CAB">>, <<"U+10CAC">>, <<"U+10CAD">>, <<"U+10CAE">>, <<"U+10CAF">>, <<"U+10CB0">>, <<"U+10CB1">>,
    <<"U+10CB2">>, <<"U+118A0">>, <<"U+118A1">>, <<"U+118A2">>, <<"U+118A3">>, <<"U+118A4">>, <<"U+118A5">>, <<"U+118A6">>,
    <<"U+118A7">>, <<"U+118A8">>, <<"U+118A9">>, <<"U+118AA">>, <<"U+118AB">>, <<"U+118AC">>, <<"U+118AD">>, <<"U+118AE">>,
    <<"U+118AF">>, <<"U+118B0">>, <<"U+118B1">>, <<"U+118B2">>, <<"U+118B3">>, <<"U+118B4">>, <<"U+118B5">>, <<"U+118B6">>,
    <<"U+118B7">>, <<"U+118B8">>, <<"U+118B9">>, <<"U+118BA">>, <<"U+118BB">>, <<"U+118BC">>, <<"U+118BD">>, <<"U+118BE">>,
    <<"U+118BF">>, <<"U+16E40">>, <<"U+16E41">>, <<"U+16E42">>, <<"U+16E43">>, <<"U+16E44">>, <<"U+16E45">>, <<"U+16E46">>,
    <<"U+16E47">>, <<"U+16E48">>, <<"U+16E49">>, <<"U+16E4A">>, <<"U+16E4B">>, <<"U+16E4C">>, <<"U+16E4D">>, <<"U+16E4E">>,
    <<"U+16E4F">>, <<"U+16E50">>, <<"U+16E51">>, <<"U+16E52">>, <<"U+16E53">>, <<"U+16E54">>, <<"U+16E55">>, <<"U+16E56">>,
    <<"U+16E57">>, <<"U+16E58">>, <<"U+16E59">>, <<"U+16E5A">>, <<"U+16E5B">>, <<"U+16E5C">>, <<"U+16E5D">>, <<"U+16E5E">>,
    <<"U+16E5F">>, <<"U+1E900">>, <<"U+1E901">>, <<"U+1E902">>, <<"U+1E903">>, <<"U+1E904">>, <<"U+1E905">>, <<"U+1E906">>,
    <<"U+1E907">>, <<"U+1E908">>, <<"U+1E909">>, <<"U+1E90A">>, <<"U+1E90B">>, <<"U+1E90C">>, <<"U+1E90D">>, <<"U+1E90E">>,
    <<"U+1E90F">>, <<"U+1E910">>, <<"U+1E911">>, <<"U+1E912">>, <<"U+1E913">>, <<"U+1E914">>, <<"U+1E915">>, <<"U+1E916">>,
    <<"U+1E917">>, <<"U+1E918">>, <<"U+1E919">>, <<"U+1E91A">>, <<"U+1E91B">>, <<"U+1E91C">>, <<"U+1E91D">>, <<"U+1E91E">>,
    <<"U+1E91F">>, <<"U+1E920">>, <<"U+1E921">>
>>

CasedLetterSet == {CasedLetters[k] : k \in 1..Len(CasedLetters)}

KwValid == <<"V", "A", "L", "I", "D">>
KwInvalid == <<"I", "N", "V", "A", "L", "I", "D">>
KwPercent == <<"%">>
KwConfidence == <<"C", "O", "N", "F", "I", "D", "E", "N", "C", "E">>
KwScore == <<"S", "C", "O", "R", "E">>

\* Final answers the reasoning backend may produce.
OutValid95 == <<"V", "A", "L", "I", "D", " ", "9", "5", "%">>
OutValid92 == <<"V", "A", "L", "I", "D", " ", "9", "2", "%">>
OutValid75 == <<"V", "A", "L", "I", "D", " ", "7", "5", "%">>
OutInvalid == <<"I", "N", "V", "A", "L", "I", "D", " ", "9", "5", "%">>
OutNeedsReview == <<"N", "E", "E", "D", "S", "_", "R", "E", "V", "I", "E", "W">>

AgentOutputs == {OutValid95, OutValid92, OutValid75, OutInvalid, OutNeedsReview}

\* Further final answers, used where validate_receipt is followed step by step.
OutValid150 == <<"V", "A", "L", "I", "D", " ", "1", "5", "0", "%">>
OutBoth == <<"V", "A", "L", "I", "D", ",", " ", "n", "o", "t", " ", "I", "N", "V", "A", "L", "I", "D", " ", "9", "0", "%">>
OutInvalidLower == <<"S", "t", "a", "t", "u", "s", ":", " ", "i", "n", "v", "a", "l", "i", "d">>
OutValidScore == <<"v", "a", "l", "i", "d", ",", " ", "s", "c", "o", "r", "e", " ", "8", "8">>

\* One issue phrase found by two patterns, and one phrase written twice.
OutIssueTwoPatterns == <<"I", "N", "V", "A", "L", "I", "D", " ", "E", "R", "R", "O", "R", ":", " ", "x">>
OutIssueTwice == <<"I", "N", "V", "A", "L", "I", "D", ":", " ", "y", "\n", "I", "N", "V", "A", "L", "I", "D", ":", " ", "y">>

\* sys.get_int_max_str_digits(): the longest digit string int() converts.
MaxStrDigits == 4300

\* An answer that holds INVALID and a confidence of more digits than int()
\* converts.
OutInvalidLongNumber ==
    KwInvalid \o <<" ">> \o [k \in 1..(MaxStrDigits + 1) |-> "1"] \o <<"%">>

\* An answer that declares NEEDS_REVIEW and speaks of the validation.
OutReviewValidation == <<"N", "E", "E", "D", "S", "_", "R", "E", "V", "I", "E", "W", ":", " ", "v", "a", "l", "i", "d", "a", "t", "i", "o", "n", " ", "o", "p", "e", "n", ",", " ", "9", "5", "%">>

AgentAnswers ==
    AgentOutputs \cup {OutValid150, OutBoth, OutInvalidLower, OutValidScore,
                       OutIssueTwoPatterns, OutIssueTwice, OutReviewValidation,
                       OutInvalidLongNumber}

\* AgentExecutor(max_iterations=10)
MaxIterations == 10

\* The output of an AgentExecutor that has used up max_iterations without a
\* final answer (early_stopping_method "force").
OutIterationCap == <<"A", "g", "e", "n", "t", " ", "s", "t", "o", "p", "p", "e", "d", " ", "d", "u", "e", " ", "t", "o", " ", "i", "t", "e", "r", "a", "t", "i", "o", "n", " ", "l", "i", "m", "i", "t", " ", "o", "r", " ", "t", "i", "m", "e", " ", "l", "i", "m", "i", "t", ".">>

\* result["output"] is None: output.upper() raises AttributeError, and
\* str(e) is the text below.
NoneOutput == <<"None">>
ErrNoneUpper == <<"'", "N", "o", "n", "e", "T", "y", "p", "e", "'", " ", "o", "b", "j", "e", "c", "t", " ", "h", "a", "s", " ", "n", "o", " ", "a", "t", "t", "r", "i", "b", "u", "t", "e", " ", "'", "u", "p", "p", "e", "r", "'">>

\* str.upper() on one character: a text of one to three characters.
UpperChar(c) ==
    IF \E k \in 1..26 : LowerLetters[k] = c
    THEN <<UpperLetters[CHOOSE k \in 1..26 : LowerLetters[k] = c]>>
    ELSE IF c \in CasedLetterSet
         THEN UpperForms[CHOOSE k \in 1..Len(CasedLetters) : CasedLetters[k] = c]
         ELSE <<c>>

\* str.upper(): the upper forms of the characters, one after another.
RECURSIVE Upper(_)
Upper(s) ==
    IF Len(s) = 0 THEN <<>>
    ELSE IF Len(s) = 1 THEN UpperChar(s[1])
    ELSE Upper(SubSeq(s, 1, Len(s) \div 2))
         \o Upper(SubSeq(s, Len(s) \div 2 + 1, Len(s)))

\* The character c of a text matches the character d of a pattern under
\* re.IGNORECASE.  The patterns of this program hold ASCII letters only, and
\* such a letter matches its other case and, beyond ASCII, what folds to it:
\* the dotted and the dotless i, the long s, the Kelvin sign.
SameIgnoringCase(c, d) ==
    \/ c = d
    \/ \E k \in 1..26 : {c, d} = {LowerLetters[k], UpperLetters[k]}
    \/ c \in {"U+0130", "U+0131"} /\ d \in {"i", "I"}
    \/ c = "U+017F" /\ d \in {"s", "S"}
    \/ c = "U+212A" /\ d \in {"k", "K"}

\* The pattern text kw matches at position p of s under re.IGNORECASE.
MatchesIgnoringCaseAt(s, p, kw) ==
    /\ p >= 1
    /\ p + Len(kw) - 1 <= Len(s)
    /\ \A k \in 1..Len(kw) : SameIgnoringCase(s[p + k - 1], kw[k])

\* s[p:].startswith(sub), p 1-based
StartsWithAt(s, p, sub) ==
    /\ p >= 1
    /\ p + Len(sub) - 1 <= Len(s)
    /\ \A k \in 1..Len(sub) : s[p + k - 1] = sub[k]

\* sub in s
Contains(s, sub) == \E p \in 1..(Len(s) + 1) : StartsWithAt(s, p, sub)

\* \d
IsDigit(c) == c \in DecimalDigitSet

\* int() of one decimal digit
DigitValue(c) ==
    ((CHOOSE k \in 1..Len(DecimalDigits) : DecimalDigits[k] = c) - 1) % 10

\* int(ds) raises ValueError: the digit string is longer than the limit.
IntRaises(ds) == Len(ds) > MaxStrDigits

\* The number a string of decimal digits stands for.
RECURSIVE DigitsValue(_)
DigitsValue(ds) ==
    IF Len(ds) = 0 THEN 0
    ELSE 10 * DigitsValue(SubSeq(ds, 1, Len(ds) - 1)) + DigitValue(ds[Len(ds)])

\* int() of a string of decimal digits: its number, or "ValueError" where
\* int() raises.
ToInt(ds) == IF IntRaises(ds) THEN "ValueError" ELSE DigitsValue(ds)

\* str(n) of a number that is not negative.
RECURSIVE IntText(_)
IntText(n) ==
    IF n < 10 THEN <<Digits[n + 1]>>
    ELSE Append(IntText(n \div 10), Digits[(n % 10) + 1])

\* str(e) of the ValueError of int() on a string of n digits.
ErrIntDigits(n) ==
    <<"E", "x", "c", "e", "e", "d", "s", " ", "t", "h", "e", " ", "l", "i", "m", "i", "t", " ", "(">> \o IntText(MaxStrDigits)
    \o <<" ", "d", "i", "g", "i", "t", "s", ")", " ", "f", "o", "r", " ", "i", "n", "t", "e", "g", "e", "r", " ", "s", "t", "r", "i", "n", "g", " ", "c", "o", "n", "v", "e", "r", "s", "i", "o", "n", ":", " ", "v", "a", "l", "u", "e", " ", "h", "a", "s", " ">>
    \o IntText(n)
    \o <<" ", "d", "i", "g", "i", "t", "s", ";", " ", "u", "s", "e", " ", "s", "y", "s", ".", "s", "e", "t", "_", "i", "n", "t", "_", "m", "a", "x", "_", "s", "t", "r", "_", "d", "i", "g", "i", "t", "s", "(", ")", " ", "t", "o", " ", "i", "n", "c", "r", "e", "a", "s", "e", " ", "t", "h", "e", " ", "l", "i", "m", "i", "t">>

\* Last position of the run of digits that starts at p (\d+ is greedy).
DigitRunEnd(s, p) ==
    CHOOSE q \in p..Len(s) :
        /\ (q = Len(s) \/ ~IsDigit(s[q + 1]))
        /\ \A k \in p..q : IsDigit(s[k])

\* First position at or after p that holds no whitespace (\s*).
SkipSpaces(s, p) ==
    CHOOSE q \in p..(Len(s) + 1) :
        /\ \A k \in p..(q - 1) : s[k] \in Whitespace
        /\ (q = Len(s) + 1 \/ s[q] \notin Whitespace)

\* (?:%|confidence|score) at p, re.IGNORECASE
UnitAt(s, p) ==
    \/ MatchesIgnoringCaseAt(s, p, KwPercent)
    \/ MatchesIgnoringCaseAt(s, p, KwConfidence)
    \/ MatchesIgnoringCaseAt(s, p, KwScore)

\* (\d+)\s*(?:%|confidence|score) matches with the group starting at p
ConfidenceMatchAt(s, p) ==
    /\ IsDigit(s[p])
    /\ UnitAt(s, SkipSpaces(s, DigitRunEnd(s, p) + 1))

\* ParseStatus with VALID tested first and without the exclusion of INVALID.
ParseStatusValidFirst(output) ==
    IF Contains(Upper(output), KwValid)
    THEN "VALID"
    ELSE IF Contains(Upper(output), KwInvalid)
         THEN "INVALID"
         ELSE "NEEDS_REVIEW"

\* ParseStatus with VALID as the status of a text that names no status.
ParseStatusDefaultValid(output) ==
    IF Contains(Upper(output), KwInvalid) THEN "INVALID" ELSE "VALID"

\* Status extraction of _parse_agent_response.
ParseStatus(output) ==
    IF Contains(Upper(output), KwValid) /\ ~Contains(Upper(output), KwInvalid)
    THEN "VALID"
    ELSE IF Contains(Upper(output), KwInvalid)
         THEN "INVALID"
         ELSE "NEEDS_REVIEW"

\* confidence_match.group(1): re.search takes the leftmost match; <<>> when
\* there is none.
ConfidenceDigits(output) ==
    IF \E p \in 1..Len(output) : ConfidenceMatchAt(output, p)
    THEN LET p == CHOOSE p \in 1..Len(output) :
                      /\ ConfidenceMatchAt(output, p)
                      /\ \A q \in 1..(p - 1) : ~ConfidenceMatchAt(output, q)
         IN  SubSeq(output, p, DigitRunEnd(output, p))
    ELSE <<>>

\* Confidence extraction of _parse_agent_response, line 164: int() of the
\* digits matched ("ValueError" where it raises), 50 when nothing matched.
ParseConfidence(output) ==
    IF ConfidenceDigits(output) = <<>> THEN 50
    ELSE ToInt(ConfidenceDigits(output))

\* ---- issue extraction, lines 166-178
KwMissing == <<"M", "I", "S", "S", "I", "N", "G">>
KwError == <<"E", "R", "R", "O", "R">>
KwViolation == <<"V", "I", "O", "L", "A", "T", "I", "O", "N">>

\* The issue patterns of line 170-175, by their leading word, in order.
IssueKeywords == <<KwMissing, KwInvalid, KwError, KwViolation>>

\* \s*([^\n]+) can match with \s* starting at b: some run of whitespace from
\* b is followed by a character that is no newline.
HasGroup(s, b) ==
    \E g \in b..Len(s) :
        /\ \A k \in b..(g - 1) : s[k] \in Whitespace
        /\ s[g] # "\n"

\* Where the group starts then: \s* is greedy, so at the last such position.
GroupStart(s, b) ==
    CHOOSE g \in b..Len(s) :
        /\ \A k \in b..(g - 1) : s[k] \in Whitespace
        /\ s[g] # "\n"
        /\ \A h \in (g + 1)..Len(s) :
              ~(/\ \A k \in b..(h - 1) : s[k] \in Whitespace
                /\ s[h] # "\n")

\* Last position of the greedy run [^:]* that starts at q (q - 1 when empty).
NonColonRunEnd(s, q) ==
    CHOOSE a \in (q - 1)..Len(s) :
        /\ \A k \in q..a : s[k] # ":"
        /\ (a = Len(s) \/ s[a + 1] = ":")

\* The pattern kw[^:]*:?\s*([^\n]+) matches at p, re.IGNORECASE.
IssueMatchAt(s, p, kw) ==
    /\ MatchesIgnoringCaseAt(s, p, kw)
    /\ LET q == p + Len(kw)
           a == NonColonRunEnd(s, q)
       IN  \/ a < Len(s)
           \/ \E b \in q..(Len(s) + 1) : HasGroup(s, b)

\* Start of the group of the match at p.  With a colon after the run the
\* colon is taken when a group can follow it and is the group's first
\* character otherwise; with the run reaching the end of the text the run is
\* given back character by character until a group can follow.
IssueGroupStart(s, p, kw) ==
    LET q == p + Len(kw)
        a == NonColonRunEnd(s, q)
    IN  IF a < Len(s)
        THEN IF HasGroup(s, a + 2) THEN GroupStart(s, a + 2) ELSE a + 1
        ELSE LET b == CHOOSE b \in q..(Len(s) + 1) :
                          /\ HasGroup(s, b)
                          /\ \A c \in (b + 1)..(Len(s) + 1) : ~HasGroup(s, c)
             IN  GroupStart(s, b)

\* Last position of the greedy run [^\n]+ that starts at g.
LineEnd(s, g) ==
    CHOOSE e \in g..Len(s) :
        /\ \A k \in g..e : s[k] # "\n"
        /\ (e = Len(s) \/ s[e + 1] = "\n")

\* re.findall(pattern, output, re.IGNORECASE) from position p on: the groups
\* of the matches, left to right, without overlap.
RECURSIVE FindIssuesFrom(_, _, _)
FindIssuesFrom(s, p, kw) ==
    IF \E m \in p..Len(s) : IssueMatchAt(s, m, kw)
    THEN LET m == CHOOSE m \in p..Len(s) :
                      /\ IssueMatchAt(s, m, kw)
                      /\ \A n \in p..(m - 1) : ~IssueMatchAt(s, n, kw)
             g == IssueGroupStart(s, m, kw)
             e == LineEnd(s, g)
         IN  <<SubSeq(s, g, e)>> \o FindIssuesFrom(s, e + 1, kw)
    ELSE <<>>

\* Issue extraction of _parse_agent_response: the case-sensitive gate of line
\* 168, then issues.extend(matches) for each pattern in turn.
ParseIssues(output) ==
    IF \/ Contains(output, KwInvalid)
       \/ Contains(output, KwError)
       \/ Contains(output, KwViolation)
    THEN FindIssuesFrom(output, 1, IssueKeywords[1])
         \o FindIssuesFrom(output, 1, IssueKeywords[2])
         \o FindIssuesFrom(output, 1, IssueKeywords[3])
         \o FindIssuesFrom(output, 1, IssueKeywords[4])
    ELSE <<>>

\* _parse_agent_response left by the exception with text e: no verdict is
\* returned, and reasoning holds str(e).
ParseRaised(e) ==
    [status |-> "raised", confidence |-> 0, reasoning |-> e, issues |-> <<>>]

\* _parse_agent_response, lines 150-187: the verdict it returns, or the
\* ValueError of int() at line 164.
ParseAgentResponse(output) ==
    IF IntRaises(ConfidenceDigits(output))
    THEN ParseRaised(ErrIntDigits(Len(ConfidenceDigits(output))))
    ELSE [status |-> ParseStatus(output), confidence |-> ParseConfidence(output),
          reasoning |-> output, issues |-> ParseIssues(output)]

\* str(e) of exceptions the agent may raise; the second shows that the text
\* of an exception is not parsed.
ErrTimeout == <<"t", "i", "m", "e", "o", "u", "t">>
ErrMentionsValid == <<"V", "A", "L", "I", "D", " ", "9", "9", "%">>
ErrorMessages == {ErrTimeout, ErrMentionsValid}

\* f"Validation error: {str(e)}"
ErrorPrefix == <<"V", "a", "l", "i", "d", "a", "t", "i", "o", "n", " ", "e", "r", "r", "o", "r", ":", " ">>

\* f"Validation failed: {str(e)}"
FailedPrefix == <<"V", "a", "l", "i", "d", "a", "t", "i", "o", "n", " ", "f", "a", "i", "l", "e", "d", ":", " ">>

\* ErrorVerdictFor with the text of the exception read as a final answer.
ErrorVerdictForParsed(e) == ParseAgentResponse(e)

\* The except branch of validate_receipt for the exception with text e.
ErrorVerdictFor(e) ==
    [status |-> "ERROR", confidence |-> 0, reasoning |-> ErrorPrefix \o e,
     issues |-> <<FailedPrefix \o e>>]

ErrorVerdict == ErrorVerdictFor(ErrTimeout)

\* _parse_agent_response on each output the executor can return.
ParsedOutputs ==
    [o \in AgentAnswers \cup {OutIterationCap} |-> ParseAgentResponse(o)]

\* Lines 122-131: what validate_receipt returns once self.agent.invoke has
\* returned output.
ReturnedVerdict(output) ==
    IF output = NoneOutput THEN ErrorVerdictFor(ErrNoneUpper)
    ELSE IF ParsedOutputs[output].status = "raised"
    THEN ErrorVerdictFor(ParsedOutputs[output].reasoning)
    ELSE ParsedOutputs[output]

\* What validate_receipt may return for a record: the parsed final answer of
\* the agent, or the ERROR verdict when the agent raises.
ValidateOutcomes == {ParseAgentResponse(o) : o \in AgentOutputs} \cup {ErrorVerdict}


\* ------------------------------------------------------------------ state
VARIABLES
    store,        \* CFMSPRO.RECEIPT_DETAILS as committed: ID -> row
    session,      \* the table as the gateway connection's transaction sees it
    gwConn,       \* OracleConnection.connection: "none", or who opened it
    connected,    \* ReceiptReconciler._connected
    minConf,      \* MIN_CONFIDENCE_SCORE
    autoThr,      \* AUTO_RECONCILE_THRESHOLD
    enableAuto,   \* ENABLE_AUTO_RECONCILE
    pc,           \* position of the current call of reconcile_receipts
    limit,        \* the call's limit argument
    receipts,     \* the local list receipts
    idx,          \* loop index i of the for loop (1-based)
    verdict,      \* validation_result of the record at idx
    results,      \* the dictionary built and returned by the call
    rerun,        \* the current call started after an earlier call had ended
    connectFailed,\* self.connect() returned False at line 49 of the current call
    startStore,   \* the store as it was when the current call started
    queryLog,     \* results of the gateway's execute_query in the current call, in order
    validateLog,  \* IDs passed to validate_receipt in the current call, in order
    updateLog,    \* update_receipt_status calls of the current call, in order
    agentState,   \* where self.agent.invoke stands for the record at idx
    agentIter,    \* think/act/observe iterations the executor has completed
    agentOutput,  \* result["output"] of self.agent.invoke
    toolRecord,   \* receipt_data handed to a rule tool
    toolConn,     \* db_connection handed to the rule tool and whether it answers
    toolResult    \* what the rule tool returned

vars == <<store, session, gwConn, connected, minConf, autoThr, enableAuto, pc, limit,
          receipts, idx, verdict, results, rerun, connectFailed, startStore,
          queryLog, validateLog, updateLog, agentState, agentIter, agentOutput,
          toolRecord, toolConn, toolResult>>

\* The rule tools' input and output; they move only under SpecTools, which
\* calls the tools of validation_tools.py one at a time.
toolVars == <<toolRecord, toolConn, toolResult>>
NoConn == [given |-> FALSE, answers |-> FALSE]
NoRecord == [ID |-> 0]
NoToolResult == [tool |-> "none"]

\* The agent executor's state; it moves only under SpecAgent, which spells
\* out the steps of validate_receipt that Validate takes at once.
agentVars == <<agentState, agentIter, agentOutput>>

IDs == 1..NumRecords

\* if self.connection: the gateway holds a connection.  gwConn is "none"
\* for None, "caller" for a connection the caller opened on the gateway
\* before handing it to ReceiptReconciler, and "reconciler" for one opened
\* by ReceiptReconciler.connect.
HasConnection == gwConn # "none"

NoLimit == [given |-> FALSE, n |-> 0]
Limits == {NoLimit} \cup {[given |-> TRUE, n |-> n] : n \in (0 - 1)..MaxLimit}

NoVerdict ==
    [status |-> "NONE", confidence |-> 0, reasoning |-> <<>>, issues |-> <<>>]

\* A row of RECEIPT_DETAILS as the database may hold it before any run.
\* Rows with status 'R' carry what an earlier update wrote.
InitialRows ==
    { [STATUS |-> s, DELETED_AT |-> d,
       RECONCILED_BY |-> IF s = "R" THEN "SYSTEM" ELSE "NULL",
       RECONCILED_AT |-> IF s = "R" THEN "SYSTIMESTAMP" ELSE "NULL",
       UPDATED_AT |-> IF s = "R" THEN "SYSTIMESTAMP" ELSE "NULL"] :
      s \in {"U", "R"}, d \in BOOLEAN }

\* SELECT * FROM RECEIPT_DETAILS WHERE STATUS = 'U' ORDER BY ID, rows k..NumRecords
RECURSIVE UnreconciledFrom(_, _)
UnreconciledFrom(st, k) ==
    IF k > NumRecords THEN <<>>
    ELSE (IF st[k].STATUS = "U"
          THEN <<[ID |-> k, STATUS |-> st[k].STATUS, DELETED_AT |-> st[k].DELETED_AT]>>
          ELSE <<>>) \o UnreconciledFrom(st, k + 1)

\* The extraction query without its WHERE STATUS = 'U'.
SelectAllRows(st) ==
    [k \in 1..NumRecords |->
        [ID |-> k, STATUS |-> st[k].STATUS, DELETED_AT |-> st[k].DELETED_AT]]

SelectUnreconciled(st) == UnreconciledFrom(st, 1)

\* get_unreconciled_receipts: the rows as dictionaries; [] when
\* execute_query returned None or no row, and when the second execution of
\* the query, which reads the column names, raised (lines 48-50, 62-64).
GetUnreconciledReceipts(st, queryOk, columnsOk) ==
    IF ~queryOk \/ Len(SelectUnreconciled(st)) = 0 THEN <<>>
    ELSE IF columnsOk THEN SelectUnreconciled(st) ELSE <<>>

\* receipts[:limit] under "if limit:"; a negative limit counts from the end
\* of the list.
ApplyLimit(rs, lim) ==
    IF lim.given /\ lim.n # 0
    THEN IF lim.n < 0
         THEN SubSeq(rs, 1, IF Len(rs) + lim.n > 0 THEN Len(rs) + lim.n ELSE 0)
         ELSE SubSeq(rs, 1, IF lim.n < Len(rs) THEN lim.n ELSE Len(rs))
    ELSE rs

\* The UPDATE held back: the row is written after the run.
ApplyUpdateHeldBack(st, id, newStatus) == st

\* UPDATE RECEIPT_DETAILS SET STATUS = :new_status, UPDATED_AT = SYSTIMESTAMP,
\* RECONCILED_AT = SYSTIMESTAMP, RECONCILED_BY = 'SYSTEM' WHERE ID = :receipt_id
ApplyUpdate(st, id, newStatus) ==
    [st EXCEPT ![id] = [@ EXCEPT !.STATUS = newStatus,
                                 !.UPDATED_AT = "SYSTIMESTAMP",
                                 !.RECONCILED_AT = "SYSTIMESTAMP",
                                 !.RECONCILED_BY = "SYSTEM"]]

\* The same UPDATE with the value SYSTIMESTAMP has when it runs.
ApplyUpdateAt(st, id, newStatus, now) ==
    [st EXCEPT ![id] = [@ EXCEPT !.STATUS = newStatus,
                                 !.UPDATED_AT = now,
                                 !.RECONCILED_AT = now,
                                 !.RECONCILED_BY = "SYSTEM"]]

\* PassesMinimum without the comparison against MIN_CONFIDENCE_SCORE.
PassesMinimumStatusOnly(status, confidence) ==
    status = "VALID"

\* Line 109: the verdict passes the validation gate.
PassesMinimum(status, confidence) ==
    status = "VALID" /\ confidence >= minConf

\* The gate of line 110 with the comparison against the threshold left out.
PassesAutoReconcileAtAnyConfidence(confidence, thr, enabled) == enabled

\* Line 110 as a function of the values of AUTO_RECONCILE_THRESHOLD and
\* ENABLE_AUTO_RECONCILE it reads.
PassesAutoReconcileAt(confidence, thr, enabled) ==
    confidence >= thr /\ enabled

\* Line 110: the auto-reconcile gate inside the validated branch.
PassesAutoReconcile(confidence) ==
    PassesAutoReconcileAt(confidence, autoThr, enableAuto)

\* Lines 109-111 with AUTO_RECONCILE_THRESHOLD = thr and the other settings
\* as they are.
AttemptsUpdateAt(status, confidence, thr) ==
    PassesMinimum(status, confidence)
        /\ PassesAutoReconcileAt(confidence, thr, enableAuto)

\* The record reaches the call of update_receipt_status (line 111).
AttemptsUpdate(status, confidence) ==
    AttemptsUpdateAt(status, confidence, autoThr)

\* DecideAction with the INVALID branch falling through to needs_review.
DecideActionNoInvalidBranch(status, confidence, updated) ==
    IF PassesMinimum(status, confidence)
    THEN IF PassesAutoReconcile(confidence)
         THEN IF updated THEN "reconciled" ELSE "update_failed"
         ELSE "needs_review"
    ELSE "needs_review"

\* DecideAction with a VALID verdict below the minimum treated as a failure.
DecideActionLowIsInvalid(status, confidence, updated) ==
    IF PassesMinimum(status, confidence)
    THEN IF PassesAutoReconcile(confidence)
         THEN IF updated THEN "reconciled" ELSE "update_failed"
         ELSE "needs_review"
    ELSE IF status \in {"INVALID", "VALID"} THEN "invalid" ELSE "needs_review"

\* DecideAction with the value returned by update_receipt_status ignored.
DecideActionIgnoringUpdate(status, confidence, updated) ==
    IF PassesMinimum(status, confidence)
    THEN IF PassesAutoReconcile(confidence) THEN "reconciled" ELSE "needs_review"
    ELSE IF status = "INVALID" THEN "invalid" ELSE "needs_review"

\* Lines 109-130 with AUTO_RECONCILE_THRESHOLD = thr and the other settings
\* as they are.
DecideActionAt(status, confidence, updated, thr) ==
    IF PassesMinimum(status, confidence)
    THEN IF PassesAutoReconcileAt(confidence, thr, enableAuto)
         THEN IF updated THEN "reconciled" ELSE "update_failed"
         ELSE "needs_review"
    ELSE IF status = "INVALID" THEN "invalid" ELSE "needs_review"

\* result_detail["action"] of lines 109-130; updated is the value returned by
\* update_receipt_status when it was called.
DecideAction(status, confidence, updated) ==
    DecideActionAt(status, confidence, updated, autoThr)

\* BucketOf with a failed update counted as needing review.
BucketOfUpdateFailedAsReview(action) ==
    CASE action = "reconciled" -> "reconciled"
      [] action = "invalid" -> "failed"
      [] OTHER -> "needs_review"

\* The counter incremented together with each action.
BucketOf(action) ==
    CASE action = "reconciled" -> "reconciled"
      [] action = "update_failed" -> "failed"
      [] action = "invalid" -> "failed"
      [] OTHER -> "needs_review"

\* The four early-return / initial dictionaries of reconcile_receipts.
ConnectFailedResult ==
    [success |-> FALSE, error |-> "Failed to connect to database",
     processed |-> 0, reconciled |-> 0, failed |-> 0, needs_review |-> 0]

\* The empty-extraction dictionary reported as a failure.
NoReceiptsResultAsFailure ==
    [success |-> FALSE, error |-> "Failed to extract receipts",
     processed |-> 0, reconciled |-> 0, failed |-> 0, needs_review |-> 0]

NoReceiptsResult ==
    [success |-> TRUE, message |-> "No unreconciled receipts found",
     processed |-> 0, reconciled |-> 0, failed |-> 0, needs_review |-> 0]

InitialResults(n) ==
    [processed |-> n, reconciled |-> 0, failed |-> 0, needs_review |-> 0,
     details |-> <<>>]

NoResults == [processed |-> 0]

\* results[bucket] += 1; results["details"].append(result_detail)
AddDetail(res, detail) ==
    LET b == BucketOf(detail.action)
    IN  [res EXCEPT !.reconciled = IF b = "reconciled" THEN @ + 1 ELSE @,
                    !.failed = IF b = "failed" THEN @ + 1 ELSE @,
                    !.needs_review = IF b = "needs_review" THEN @ + 1 ELSE @,
                    !.details = Append(@, detail)]

\* ------------------------------------------------------------ rule tools
\* Values of receipt_data.  None in a text column:
PyNone == <<"None">>

\* Receipt numbers.
RC1 == <<"R", "C", "1">>
RC2 == <<"R", "C", "2">>

\* A number column holds None, a number, a text that is no number ('abc')
\* or the empty text ''.
NoneNum == [kind |-> "none", val |-> 0]
Num(n) == [kind |-> "num", val |-> n]
TextNum == [kind |-> "text", val |-> 0]
EmptyNum == [kind |-> "empty", val |-> 0]

\* int(v) and float(v) raise ValueError: v is a text, empty or not.
IsText(v) == v.kind \in {"text", "empty"}

\* A date column holds None, a text, or a datetime object.
NoDate == [kind |-> "none", text |-> <<>>, year |-> 0, month |-> 0]
DateText(t) == [kind |-> "str", text |-> t, year |-> 0, month |-> 0]
DateObject(y, m) == [kind |-> "datetime", text |-> <<>>, year |-> y, month |-> m]

\* bool(v) of a number column, a text column and a date column.
TruthyNum(v) == v.kind = "text" \/ (v.kind = "num" /\ v.val # 0)
TruthyText(t) == t # PyNone /\ t # <<>>
TruthyDate(d) == d.kind = "datetime" \/ (d.kind = "str" /\ d.text # <<>>)

\* What a tool returns: the keyword before the colon and the messages after it.
ToolResult(tool, keyword, messages) ==
    [tool |-> tool, keyword |-> keyword, messages |-> messages]

\* receipt_data.get(field) is None
FieldIsNone(r, field) ==
    IF field \in {"RECEIPT_NUMBER", "STATUS", "APPORTION_TYPE"}
    THEN r[field] = PyNone
    ELSE r[field].kind = "none"

\* [field for field in fields if receipt_data.get(field) is None]
RECURSIVE MissingFields(_, _)
MissingFields(r, fields) ==
    IF fields = <<>> THEN <<>>
    ELSE LET front == MissingFields(r, SubSeq(fields, 1, Len(fields) - 1))
             f == fields[Len(fields)]
         IN  IF FieldIsNone(r, f) THEN Append(front, f) ELSE front

RequiredFields ==
    <<"ID", "RECEIPT_NUMBER", "AMOUNT", "STATUS", "EMPLOYER_ID", "OFFICE_ID",
      "MONTH", "YEAR", "SCHEME_ID", "RECEIPT_TYPE", "APPORTION_TYPE">>

ValidStatuses == {<<"U">>, <<"R">>, <<"R", "E", "V">>, <<"I">>}
ValidApportions == {<<"A", "u", "t", "o">>, <<"N", "o", "r", "m", "a", "l">>}

\* check_receipt_validity, lines 8-51.
CheckReceiptValidity(r) ==
    LET missing == MissingFields(r, RequiredFields)
        T == "check_receipt_validity"
    IN  IF missing # <<>>
        THEN ToolResult(T, "INVALID", <<"Missing required fields">> \o missing)
        ELSE IF IsText(r.AMOUNT)
        THEN ToolResult(T, "INVALID", <<"Amount must be a valid number">>)
        ELSE IF r.AMOUNT.val <= 0
        THEN ToolResult(T, "INVALID", <<"Amount must be positive">>)
        ELSE IF Upper(r.STATUS) \notin ValidStatuses
        THEN ToolResult(T, "INVALID", <<"Status must be one of">>)
        ELSE IF ~(r.RECEIPT_TYPE.kind = "num" /\ r.RECEIPT_TYPE.val \in 1..5)
        THEN ToolResult(T, "INVALID", <<"Receipt type must be one of">>)
        ELSE IF r.APPORTION_TYPE \notin ValidApportions
        THEN ToolResult(T, "INVALID", <<"Apportion type must be one of">>)
        ELSE ToolResult(T, "VALID", <<"Receipt has all required fields and valid format">>)

\* check_employer_assignment, lines 54-84.
CheckEmployerAssignment(r) ==
    LET T == "check_employer_assignment"
    IN  IF ~TruthyNum(r.EMPLOYER_ID)
        THEN ToolResult(T, "INVALID", <<"Missing employer assignment">>)
        ELSE IF ~TruthyNum(r.OFFICE_ID)
        THEN ToolResult(T, "INVALID", <<"Missing office assignment">>)
        ELSE IF ~TruthyNum(r.SCHEME_ID)
        THEN ToolResult(T, "INVALID", <<"Missing scheme assignment">>)
        ELSE IF ~TruthyNum(r.MAIN_SCHEME_ID)
        THEN ToolResult(T, "WARNING", <<"Missing main scheme assignment">>)
        ELSE ToolResult(T, "VALID", <<"Assigned to">>)

\* receipt_date.split()[0]: the first run of characters that are no
\* whitespace; <<>> stands for the IndexError of a text without one.
FirstWord(t) ==
    IF \A k \in 1..Len(t) : t[k] \in Whitespace THEN <<>>
    ELSE LET a == CHOOSE a \in 1..Len(t) :
                      /\ t[a] \notin Whitespace
                      /\ \A k \in 1..(a - 1) : t[k] \in Whitespace
             b == CHOOSE b \in a..Len(t) :
                      /\ \A k \in a..b : t[k] \notin Whitespace
                      /\ (b = Len(t) \/ t[b + 1] \in Whitespace)
         IN  SubSeq(t, a, b)

AllDigits(w) == Len(w) >= 1 /\ \A k \in 1..Len(w) : IsDigit(w[k])

IsLeapYear(y) == (y % 4 = 0 /\ y % 100 # 0) \/ y % 400 = 0

DaysInMonth(y, m) ==
    IF m = 2 THEN (IF IsLeapYear(y) THEN 29 ELSE 28)
    ELSE IF m \in {4, 6, 9, 11} THEN 30 ELSE 31

\* The day of %d: 3[0-1]|[1-2]\d|0[1-9]|[1-9], one or two ASCII digits, or 1
\* or 2 and any decimal digit.
DayDigits(ds) ==
    \/ Len(ds) \in 1..2 /\ \A k \in 1..Len(ds) : IsAsciiDigit(ds[k])
    \/ Len(ds) = 2 /\ ds[1] \in {"1", "2"} /\ IsDigit(ds[2])

\* datetime.strptime(w, '%Y-%m-%d'): four decimal digits (\d\d\d\d), a month
\* of one or two ASCII digits (1[0-2]|0[1-9]|[1-9]), a day, and a date that
\* exists; ok is false where strptime raises.
ParseYmd(w) ==
    LET bad == [ok |-> FALSE, year |-> 0, month |-> 0]
    IN  IF ~(Len(w) \in 8..10 /\ AllDigits(SubSeq(w, 1, 4)) /\ w[5] = "-")
        THEN bad
        ELSE IF ~\E d \in {7, 8} : d < Len(w) /\ w[d] = "-"
        THEN bad
        ELSE LET d == CHOOSE d \in {7, 8} : d < Len(w) /\ w[d] = "-"
                 ms == SubSeq(w, 6, d - 1)
                 ds == SubSeq(w, d + 1, Len(w))
             IN  IF ~((\A k \in 1..Len(ms) : IsAsciiDigit(ms[k])) /\ DayDigits(ds))
                 THEN bad
                 ELSE LET y == DigitsValue(SubSeq(w, 1, 4))
                          m == DigitsValue(ms)
                          dd == DigitsValue(ds)
                      IN  IF y >= 1 /\ m \in 1..12 /\ dd >= 1
                             /\ dd <= DaysInMonth(y, m)
                          THEN [ok |-> TRUE, year |-> y, month |-> m]
                          ELSE bad

\* Lines 133-142 and 243-252: the date is compared with MONTH and YEAR only
\* when it is a text that strptime can read and int() can read MONTH and
\* YEAR; every other case is skipped.
DateMismatch(r) ==
    /\ TruthyDate(r.RECEIPT_DATE) /\ TruthyNum(r.MONTH) /\ TruthyNum(r.YEAR)
    /\ r.RECEIPT_DATE.kind = "str"
    /\ ParseYmd(FirstWord(r.RECEIPT_DATE.text)).ok
    /\ r.MONTH.kind = "num"
    /\ \/ ParseYmd(FirstWord(r.RECEIPT_DATE.text)).month # r.MONTH.val
       \/ /\ r.YEAR.kind = "num"
          /\ ParseYmd(FirstWord(r.RECEIPT_DATE.text)).year # r.YEAR.val

\* One optional message: <<msg>> when the condition holds.
MessageIf(cond, msg) == IF cond THEN <<msg>> ELSE <<>>

\* check_logical_consistency, lines 87-147.
CheckLogicalConsistency(r) ==
    LET issues ==
            MessageIf(r.MONTH.kind = "num" /\ ~(r.MONTH.val \in 1..12), "Invalid month")
         \o MessageIf(IsText(r.MONTH), "Invalid month format")
         \o MessageIf(r.YEAR.kind = "num" /\ ~(r.YEAR.val \in 2000..2100), "Suspicious year")
         \o MessageIf(IsText(r.YEAR), "Invalid year format")
         \o MessageIf(r.AMOUNT.kind = "num" /\ r.AMOUNT.val < 0, "Negative amount")
         \o MessageIf(r.AMOUNT.kind = "num" /\ r.AMOUNT.val > 1000000000, "Extremely large amount")
         \o MessageIf(IsText(r.AMOUNT), "Invalid amount format")
         \o MessageIf(DateMismatch(r), "Receipt date inconsistent with month/year")
        T == "check_logical_consistency"
    IN  IF issues # <<>> THEN ToolResult(T, "INCONSISTENT", issues)
        ELSE ToolResult(T, "CONSISTENT", <<"All fields are logically valid">>)

\* len(str(t).strip()) == 0
IsBlank(t) == \A k \in 1..Len(t) : t[k] \in Whitespace

\* check_business_rules, lines 217-274.
CheckBusinessRules(r) ==
    LET violations ==
            MessageIf(Upper(r.STATUS) # <<"U">>, "Status should be 'U'")
         \o MessageIf(~TruthyText(r.RECEIPT_NUMBER) \/ IsBlank(r.RECEIPT_NUMBER),
                      "Missing receipt number")
         \o MessageIf(DateMismatch(r), "Receipt date inconsistent with month/year")
         \o MessageIf(TruthyNum(r.AMOUNT) /\ r.AMOUNT.kind = "num" /\ r.AMOUNT.val <= 0,
                      "Amount must be positive")
         \o MessageIf(TruthyNum(r.AMOUNT) /\ r.AMOUNT.kind = "num" /\ r.AMOUNT.val > 10000000,
                      "Amount exceeds maximum threshold")
         \o MessageIf(TruthyNum(r.AMOUNT) /\ IsText(r.AMOUNT), "Invalid amount format")
         \o MessageIf(TruthyDate(r.DELETED_AT), "Receipt is marked as deleted")
        T == "check_business_rules"
    IN  IF violations # <<>> THEN ToolResult(T, "RULE_VIOLATION", violations)
        ELSE ToolResult(T, "COMPLIANT", <<"All business rules satisfied">>)

\* The columns of CFMSPRO.RECEIPT_DETAILS that no operation writes: the
\* duplicate key of each row.  Rows 1 and 2 share the whole key with both
\* linkage columns NULL, row 3 differs from them by a PENALTY_ID, the rows
\* after it by their receipt number.
KeyColumns ==
    [k \in IDs |->
        [RECEIPT_NUMBER |-> IF k <= 3 THEN RC1 ELSE RC2,
         MONTH |-> Num(3), YEAR |-> Num(2024), EMPLOYER_ID |-> Num(1),
         RECEIPT_TYPE |-> Num(1),
         PENALTY_ID |-> IF k = 3 THEN Num(7) ELSE NoneNum,
         ADJUSTMENT_ID |-> NoneNum]]

\* col = :bind OR (col IS NULL AND :bind IS NULL); the database takes the
\* empty text for NULL.
NullAwareEqual(col, bind) ==
    \/ col.kind = "num" /\ bind.kind = "num" /\ col.val = bind.val
    \/ col.kind = "none" /\ bind.kind \in {"none", "empty"}

\* col = :bind, which is not true when either side is NULL.
SqlEqual(col, bind) ==
    col.kind = "num" /\ bind.kind = "num" /\ col.val = bind.val

\* The WHERE clause of lines 183-191 on row k of the table.
DuplicateRowWithoutStatus(st, k, r) ==
    /\ k # r.ID.val
    /\ SqlEqual(KeyColumns[k].MONTH, r.MONTH)
    /\ KeyColumns[k].RECEIPT_NUMBER = r.RECEIPT_NUMBER
    /\ SqlEqual(KeyColumns[k].YEAR, r.YEAR)
    /\ SqlEqual(KeyColumns[k].EMPLOYER_ID, r.EMPLOYER_ID)
    /\ SqlEqual(KeyColumns[k].RECEIPT_TYPE, r.RECEIPT_TYPE)
    /\ NullAwareEqual(KeyColumns[k].PENALTY_ID, r.PENALTY_ID)
    /\ NullAwareEqual(KeyColumns[k].ADJUSTMENT_ID, r.ADJUSTMENT_ID)

DuplicateRow(st, k, r) ==
    /\ st[k].STATUS = "R"
    /\ k # r.ID.val
    /\ SqlEqual(KeyColumns[k].MONTH, r.MONTH)
    /\ KeyColumns[k].RECEIPT_NUMBER = r.RECEIPT_NUMBER
    /\ SqlEqual(KeyColumns[k].YEAR, r.YEAR)
    /\ SqlEqual(KeyColumns[k].EMPLOYER_ID, r.EMPLOYER_ID)
    /\ SqlEqual(KeyColumns[k].RECEIPT_TYPE, r.RECEIPT_TYPE)
    /\ NullAwareEqual(KeyColumns[k].PENALTY_ID, r.PENALTY_ID)
    /\ NullAwareEqual(KeyColumns[k].ADJUSTMENT_ID, r.ADJUSTMENT_ID)

\* SELECT COUNT(*) ... of lines 180-192
DuplicateCount(st, r) == Cardinality({k \in IDs : DuplicateRow(st, k, r)})

\* all([receipt_id, receipt_number, amount, employer_id, month, year,
\* receipt_type]), line 175
SufficientData(r) ==
    /\ TruthyNum(r.ID) /\ TruthyText(r.RECEIPT_NUMBER) /\ TruthyNum(r.AMOUNT)
    /\ TruthyNum(r.EMPLOYER_ID) /\ TruthyNum(r.MONTH) /\ TruthyNum(r.YEAR)
    /\ TruthyNum(r.RECEIPT_TYPE)

\* The database accepts the bind values: a text that is no number bound
\* against a number column makes cursor.execute raise.
BindsAccepted(r) ==
    \A f \in {"ID", "MONTH", "YEAR", "EMPLOYER_ID", "RECEIPT_TYPE",
              "PENALTY_ID", "ADJUSTMENT_ID"} : r[f].kind # "text"

\* check_duplicate sending its query before it looks at the record.
CheckDuplicateQueryFirst(r, given, st, answers) ==
    LET T == "check_duplicate"
    IN  IF ~given
        THEN ToolResult(T, "WARNING", <<"Cannot check duplicates without database connection">>)
        ELSE IF ~(answers /\ BindsAccepted(r))
        THEN ToolResult(T, "ERROR", <<"Could not check duplicates">>)
        ELSE IF DuplicateCount(st, r) > 0
        THEN ToolResult(T, "DUPLICATE", <<"Found similar reconciled receipt(s)">>)
        ELSE IF ~SufficientData(r)
        THEN ToolResult(T, "WARNING", <<"Insufficient data to check duplicates">>)
        ELSE ToolResult(T, "UNIQUE", <<"No duplicates found">>)

\* check_duplicate, lines 150-214: given says that a db_connection was
\* passed, answers that the connection is live and the query goes through.
CheckDuplicate(r, given, st, answers) ==
    LET T == "check_duplicate"
    IN  IF ~given
        THEN ToolResult(T, "WARNING", <<"Cannot check duplicates without database connection">>)
        ELSE IF ~SufficientData(r)
        THEN ToolResult(T, "WARNING", <<"Insufficient data to check duplicates">>)
        ELSE IF ~(answers /\ BindsAccepted(r))
        THEN ToolResult(T, "ERROR", <<"Could not check duplicates">>)
        ELSE IF DuplicateCount(st, r) > 0
        THEN ToolResult(T, "DUPLICATE", <<"Found similar reconciled receipt(s)">>)
        ELSE ToolResult(T, "UNIQUE", <<"No duplicates found">>)

\* ------------------------------------------------------------------ Init
Init ==
    /\ store \in [IDs -> InitialRows]
    /\ \A k \in IDs : store[k].DELETED_AT => k = 1
    /\ gwConn \in {"none", "caller"}
    /\ connected = FALSE
    /\ minConf \in MinConfidenceValues
    /\ autoThr \in AutoReconcileValues
    /\ enableAuto \in BOOLEAN
    /\ pc = "idle"
    /\ limit = NoLimit
    /\ receipts = <<>>
    /\ idx = 0
    /\ verdict = NoVerdict
    /\ results = NoResults
    /\ rerun = FALSE
    /\ connectFailed = FALSE
    /\ startStore = store
    /\ session = store
    /\ queryLog = <<>>
    /\ validateLog = <<>>
    /\ updateLog = <<>>
    /\ agentState = "idle"
    /\ agentIter = 0
    /\ agentOutput = <<>>
    /\ toolRecord = NoRecord
    /\ toolConn = NoConn
    /\ toolResult = NoToolResult

\* ---------------------------------------------------------------- actions
config == <<minConf, autoThr, enableAuto>>

\* No call of reconcile_receipts is under way: none was made yet, the last
\* one returned its dictionary, or the last one was left by an exception.
AtRest == pc \in {"idle", "done", "raised"}

\* OracleConnection.connect(), lines 57-84: oracledb.connect returns and the
\* connection is stored, True; it raises and the handler prints the message,
\* False; it raises an oracledb.Error whose args the handler cannot unpack
\* (line 78) or whose argument has no message (line 79), and the exception
\* raised inside the handler leaves connect().
ConnectOutcomes == {"connected", "refused", "raised"}

\* ReceiptReconciler.connect(), called by the user or by __enter__.
Connect ==
    /\ AtRest
    /\ IF connected
       THEN UNCHANGED <<connected, gwConn, session>>
       ELSE \E res \in ConnectOutcomes :
               /\ connected' = (res = "connected")
               /\ gwConn' = IF res = "connected" THEN "reconciler" ELSE gwConn
               /\ session' = IF res = "connected" THEN store ELSE session
    /\ UNCHANGED <<store, config, pc, limit, receipts, idx, verdict, results,
                   rerun, connectFailed, startStore, queryLog, validateLog,
                   updateLog>>
    /\ UNCHANGED agentVars
    /\ UNCHANGED toolVars

\* ReceiptReconciler.disconnect(), called by the user or by __exit__.
\* disconnect closing the gateway connection without resetting the flag.
DisconnectKeepsFlag ==
    /\ AtRest
    /\ IF connected
       THEN /\ \E closed \in BOOLEAN :
                  /\ gwConn' = IF closed THEN "none" ELSE gwConn
                  /\ session' = IF closed THEN store ELSE session
            /\ connected' = connected
       ELSE UNCHANGED <<connected, gwConn, session>>
    /\ UNCHANGED <<store, config, pc, limit, receipts, idx, verdict, results,
                   rerun, connectFailed, startStore, queryLog, validateLog,
                   updateLog>>
    /\ UNCHANGED agentVars
    /\ UNCHANGED toolVars

Disconnect ==
    /\ AtRest
    /\ IF connected
       THEN /\ \E closed \in BOOLEAN :
                  /\ gwConn' = IF closed THEN "none" ELSE gwConn
                  /\ session' = IF closed THEN store ELSE session
            /\ connected' = FALSE
       ELSE UNCHANGED <<connected, gwConn, session>>
    /\ UNCHANGED <<store, config, pc, limit, receipts, idx, verdict, results,
                   rerun, connectFailed, startStore, queryLog, validateLog,
                   updateLog>>
    /\ UNCHANGED agentVars
    /\ UNCHANGED toolVars

\* AfterConnect with the value of self.connect() ignored.
AfterConnectUnchecked(res) ==
    IF res = "raised" THEN [pc |-> "raised", results |-> NoResults]
    ELSE [pc |-> "extract", results |-> NoResults]

\* Lines 49-57: where reconcile_receipts goes with what self.connect() did.
\* An exception that leaves connect() is caught neither at lines 30-37 nor
\* at line 49: it leaves reconcile_receipts, which returns nothing.
AfterConnect(res) ==
    IF res = "connected" THEN [pc |-> "extract", results |-> NoResults]
    ELSE IF res = "refused" THEN [pc |-> "done", results |-> ConnectFailedResult]
    ELSE [pc |-> "raised", results |-> NoResults]

\* reconcile_receipts(limit), lines 49-57: the call starts and connects.
StartRun(lim) ==
    /\ AtRest
    /\ rerun' = (pc # "idle")
    /\ limit' = lim
    /\ startStore' = store
    /\ receipts' = <<>>
    /\ idx' = 0
    /\ verdict' = NoVerdict
    /\ validateLog' = <<>>
    /\ updateLog' = <<>>
    /\ \E res \in ConnectOutcomes :
          /\ connected => res = "connected"
          /\ connected' = (res = "connected")
          /\ gwConn' = IF ~connected /\ res = "connected" THEN "reconciler" ELSE gwConn
          /\ session' = IF ~connected /\ res = "connected" THEN store ELSE session
          /\ connectFailed' = (res = "refused")
          /\ queryLog' = <<>>
          /\ pc' = AfterConnect(res).pc
          /\ results' = AfterConnect(res).results
    /\ UNCHANGED <<store, config>>
    /\ UNCHANGED agentVars
    /\ UNCHANGED toolVars

\* Lines 61-86: extraction, the empty early return, the limit, the counters.
Extract ==
    /\ pc = "extract"
    /\ \E dbOk \in BOOLEAN, columnsOk \in BOOLEAN :
          LET queryOk == HasConnection /\ dbOk
              rows == GetUnreconciledReceipts(session, queryOk, columnsOk)
          IN  /\ queryLog' = Append(queryLog, IF queryOk THEN "rows" ELSE "null")
              /\ IF Len(rows) = 0
                 THEN /\ results' = NoReceiptsResult
                      /\ pc' = "done"
                      /\ UNCHANGED <<receipts, idx>>
                 ELSE /\ receipts' = ApplyLimit(rows, limit)
                      /\ results' = InitialResults(Len(ApplyLimit(rows, limit)))
                      /\ idx' = 1
                      /\ pc' = IF Len(ApplyLimit(rows, limit)) = 0
                               THEN "summarize" ELSE "validate"
    /\ UNCHANGED <<store, session, gwConn, connected, config, limit, verdict, rerun,
                   connectFailed, startStore, validateLog, updateLog>>
    /\ UNCHANGED agentVars
    /\ UNCHANGED toolVars

\* Line 94: validate_receipt on the record at idx.
Validate ==
    /\ pc = "validate"
    /\ \E v \in ValidateOutcomes : verdict' = v
    /\ validateLog' = Append(validateLog, receipts[idx].ID)
    /\ pc' = "decide"
    /\ UNCHANGED <<store, session, gwConn, connected, config, limit, receipts, idx,
                   results, rerun, connectFailed, startStore, queryLog, updateLog>>
    /\ UNCHANGED agentVars
    /\ UNCHANGED toolVars

\* What execute_update does when the gateway holds a connection (lines
\* 135-163).
\*   committed     the UPDATE runs, commit() and cursor.close() return: True;
\*   close_raised  cursor.close() raises after the commit; the handler has
\*                 nothing left to roll back: False;
\*   rolled_back   execute() or commit() raises and the handler's rollback()
\*                 returns: the transaction is undone, False;
\*   left_pending  the UPDATE runs, commit() raises and the handler raises
\*                 before or in rollback() (lines 153-156, 160-162): the
\*                 UPDATE stays in the open transaction, and
\*                 update_receipt_status catches the exception: False;
\*   not_executed  the ping of is_connected() fails, or cursor() or execute()
\*                 raises and the handler raises before or in rollback():
\*                 the transaction is as it was, False.
UpdateOutcomes ==
    {"committed", "close_raised", "rolled_back", "left_pending", "not_executed"}

\* The committed table and the open transaction after execute_update: st
\* and ses are the two before the call, upd is ses with the UPDATE run.  A
\* commit writes everything the transaction holds, a rollback drops it.
UpdateEffect(st, ses, upd, out) ==
    IF ~HasConnection THEN [store |-> st, session |-> ses]
    ELSE IF out \in {"committed", "close_raised"} THEN [store |-> upd, session |-> upd]
    ELSE IF out = "rolled_back" THEN [store |-> st, session |-> st]
    ELSE IF out = "left_pending" THEN [store |-> st, session |-> upd]
    ELSE [store |-> st, session |-> ses]

\* update_receipt_status returns true: the connection is set and the UPDATE,
\* its commit and the closing of the cursor go through.
UpdateSucceeds(out) == HasConnection /\ out = "committed"

\* UpdateCalls with a failed update tried a second time.
UpdateCallsWithRetry(id, attempt, updated) ==
    IF attempt
    THEN IF updated THEN <<[id |-> id, ok |-> TRUE]>>
         ELSE <<[id |-> id, ok |-> FALSE], [id |-> id, ok |-> FALSE]>>
    ELSE <<>>

\* Lines 110-118: the calls of update_receipt_status made for one record,
\* each with the value it returned.
UpdateCalls(id, attempt, updated) ==
    IF attempt THEN <<[id |-> id, ok |-> updated]>> ELSE <<>>

\* AfterRecord with the loop left as soon as a record's validation or update
\* has failed.
AfterRecordAbortOnFailure(status, action, i, n) ==
    IF status = "ERROR" \/ action = "update_failed" THEN "summarize"
    ELSE IF i < n THEN "validate" ELSE "summarize"

\* The for loop of lines 88-132: after the detail of record i of n is
\* appended the loop goes to the next record, whatever the verdict and the
\* action were, and to the summary after the last one.
AfterRecord(status, action, i, n) ==
    IF i < n THEN "validate" ELSE "summarize"

\* Lines 96-132: the decision for the record at idx, with the status update
\* when the verdict reaches it, and the detail entry.
Decide ==
    /\ pc = "decide"
    /\ \E out \in UpdateOutcomes :
          LET id == receipts[idx].ID
              attempt == AttemptsUpdate(verdict.status, verdict.confidence)
              updated == attempt /\ UpdateSucceeds(out)
              effect == UpdateEffect(store, session,
                                     ApplyUpdate(session, id, "R"), out)
              detail == [receipt_id |-> id,
                         status |-> verdict.status,
                         confidence |-> verdict.confidence,
                         reasoning |-> verdict.reasoning,
                         issues |-> verdict.issues,
                         action |-> DecideAction(verdict.status, verdict.confidence, updated)]
          IN  /\ attempt \/ out = "committed"
              /\ store' = IF attempt THEN effect.store ELSE store
              /\ session' = IF attempt THEN effect.session ELSE session
              /\ updateLog' = updateLog \o UpdateCalls(id, attempt, updated)
              /\ results' = AddDetail(results, detail)
    /\ idx' = idx + 1
    /\ pc' = AfterRecord(verdict.status, results'.details[Len(results'.details)].action,
                         idx, Len(receipts))
    /\ verdict' = NoVerdict
    /\ UNCHANGED <<gwConn, connected, config, limit, receipts, rerun,
                   connectFailed, startStore, queryLog, validateLog>>
    /\ UNCHANGED agentVars
    /\ UNCHANGED toolVars

\* Lines 144-145: results["success"] = True; return results.
FinalResults(res) ==
    [k \in DOMAIN res \cup {"success"} |-> IF k = "success" THEN TRUE ELSE res[k]]

\* Lines 134-145: the summary; the call returns results with success set.
Summarize ==
    /\ pc = "summarize"
    /\ results' = FinalResults(results)
    /\ pc' = "done"
    /\ UNCHANGED <<store, session, gwConn, connected, config, limit, receipts, idx,
                   verdict, rerun, connectFailed, startStore, queryLog,
                   validateLog, updateLog>>
    /\ UNCHANGED agentVars
    /\ UNCHANGED toolVars

Next ==
    \/ Connect
    \/ Disconnect
    \/ \E lim \in Limits : StartRun(lim)
    \/ Extract
    \/ Validate
    \/ Decide
    \/ Summarize

Spec == Init /\ [][Next]_vars

\* ------------------------------------------------- validate_receipt in steps
\* Line 94 and lines 113-120: validate_receipt is called for the record at
\* idx and starts the agent executor.
AgentInvoke ==
    /\ pc = "validate"
    /\ agentState = "idle"
    /\ agentState' = "running"
    /\ agentIter' = 0
    /\ agentOutput' = <<>>
    /\ validateLog' = Append(validateLog, receipts[idx].ID)
    /\ UNCHANGED <<store, session, gwConn, connected, config, pc, limit, receipts, idx,
                   verdict, results, rerun, connectFailed, startStore, queryLog,
                   updateLog>>
    /\ UNCHANGED toolVars

\* The executor's loop condition: fewer than max_iterations iterations done.
AgentMayContinue(iter) == iter < MaxIterations

\* One think / act / observe iteration that calls a tool and gives no final
\* answer.
AgentIterate ==
    /\ agentState = "running"
    /\ AgentMayContinue(agentIter)
    /\ agentIter' = agentIter + 1
    /\ UNCHANGED <<store, session, gwConn, connected, config, pc, limit, receipts, idx,
                   verdict, results, rerun, connectFailed, startStore, queryLog,
                   validateLog, updateLog, agentState, agentOutput>>
    /\ UNCHANGED toolVars

\* An iteration in which the backend gives its final answer o.
AgentAnswer(o) ==
    /\ agentState = "running"
    /\ AgentMayContinue(agentIter)
    /\ agentOutput' = o
    /\ agentState' = "returned"
    /\ UNCHANGED <<store, session, gwConn, connected, config, pc, limit, receipts, idx,
                   verdict, results, rerun, connectFailed, startStore, queryLog,
                   validateLog, updateLog, agentIter>>
    /\ UNCHANGED toolVars

\* The iterations are used up: the executor returns its stopped response.
AgentStop ==
    /\ agentState = "running"
    /\ ~AgentMayContinue(agentIter)
    /\ agentOutput' = OutIterationCap
    /\ agentState' = "returned"
    /\ UNCHANGED <<store, session, gwConn, connected, config, pc, limit, receipts, idx,
                   verdict, results, rerun, connectFailed, startStore, queryLog,
                   validateLog, updateLog, agentIter>>
    /\ UNCHANGED toolVars

\* Lines 125-131: formatting the record or running the agent raises an
\* exception with text e.
AgentRaise(e) ==
    /\ agentState = "running"
    /\ verdict' = ErrorVerdictFor(e)
    /\ agentState' = "raised"
    /\ pc' = "decide"
    /\ UNCHANGED <<store, session, gwConn, connected, config, limit, receipts, idx,
                   results, rerun, connectFailed, startStore, queryLog,
                   validateLog, updateLog, agentIter, agentOutput>>
    /\ UNCHANGED toolVars

\* Lines 122-123: the output is parsed and validate_receipt returns.
ParseAnswer ==
    /\ agentState = "returned"
    /\ verdict' = ReturnedVerdict(agentOutput)
    /\ agentState' = "parsed"
    /\ pc' = "decide"
    /\ UNCHANGED <<store, session, gwConn, connected, config, limit, receipts, idx,
                   results, rerun, connectFailed, startStore, queryLog,
                   validateLog, updateLog, agentIter, agentOutput>>
    /\ UNCHANGED toolVars

\* Decide, after which the validator is at rest again.
AgentDecide ==
    /\ agentState \in {"parsed", "raised"}
    /\ agentState' = "idle"
    /\ UNCHANGED <<agentIter, agentOutput>>
    /\ \E out \in UpdateOutcomes :
          LET id == receipts[idx].ID
              attempt == AttemptsUpdate(verdict.status, verdict.confidence)
              updated == attempt /\ UpdateSucceeds(out)
              effect == UpdateEffect(store, session,
                                     ApplyUpdate(session, id, "R"), out)
              detail == [receipt_id |-> id,
                         status |-> verdict.status,
                         confidence |-> verdict.confidence,
                         reasoning |-> verdict.reasoning,
                         issues |-> verdict.issues,
                         action |-> DecideAction(verdict.status, verdict.confidence, updated)]
          IN  /\ attempt \/ out = "committed"
              /\ store' = IF attempt THEN effect.store ELSE store
              /\ session' = IF attempt THEN effect.session ELSE session
              /\ updateLog' = updateLog \o UpdateCalls(id, attempt, updated)
              /\ results' = AddDetail(results, detail)
    /\ idx' = idx + 1
    /\ pc' = AfterRecord(verdict.status, results'.details[Len(results'.details)].action,
                         idx, Len(receipts))
    /\ verdict' = NoVerdict
    /\ UNCHANGED <<gwConn, connected, config, limit, receipts, rerun,
                   connectFailed, startStore, queryLog, validateLog>>
    /\ UNCHANGED toolVars

\* The world of SpecAgent: MIN_CONFIDENCE_SCORE has its default and only
\* records 1 and 2 may be unreconciled, so that each run validates at most
\* two records and the agent's steps are what is explored.
InitAgent ==
    /\ Init
    /\ minConf = 80
    /\ \A k \in IDs \ {1, 2} : store[k].STATUS = "R"

NextAgent ==
    \/ \E lim \in Limits : StartRun(lim)
    \/ Extract
    \/ AgentInvoke
    \/ AgentIterate
    \/ \E o \in AgentAnswers \cup {NoneOutput} : AgentAnswer(o)
    \/ AgentStop
    \/ \E e \in ErrorMessages : AgentRaise(e)
    \/ ParseAnswer
    \/ AgentDecide
    \/ Summarize

SpecAgent == InitAgent /\ [][NextAgent]_vars

\* ------------------------------------- update_receipt_status called directly
\* SYSTIMESTAMP at the n-th UPDATE; "t0" is a time before the first one.
TimeNames == <<"t1", "t2", "t3", "t4", "t5", "t6">>
Timestamp(n) == TimeNames[n]

\* Rows of a store that users and clerks have worked on: unreconciled ones,
\* and ones reconciled at t0 by this system or by a clerk.
UpdateRows ==
    { [STATUS |-> "U", DELETED_AT |-> FALSE, RECONCILED_BY |-> "NULL",
       RECONCILED_AT |-> "NULL", UPDATED_AT |-> "NULL"] }
    \cup
    { [STATUS |-> "R", DELETED_AT |-> FALSE, RECONCILED_BY |-> by,
       RECONCILED_AT |-> "t0", UPDATED_AT |-> "t0"] : by \in {"SYSTEM", "CLERK"} }

InitUpdate ==
    /\ store \in [IDs -> UpdateRows]
    /\ gwConn \in {"none", "caller"}
    /\ connected = FALSE
    /\ minConf = 80
    /\ autoThr = 90
    /\ enableAuto = TRUE
    /\ pc = "idle"
    /\ limit = NoLimit
    /\ receipts = <<>>
    /\ idx = 0
    /\ verdict = NoVerdict
    /\ results = NoResults
    /\ rerun = FALSE
    /\ connectFailed = FALSE
    /\ startStore = store
    /\ session = store
    /\ queryLog = <<>>
    /\ validateLog = <<>>
    /\ updateLog = <<>>
    /\ agentState = "idle"
    /\ agentIter = 0
    /\ agentOutput = <<>>
    /\ toolRecord = NoRecord
    /\ toolConn = NoConn
    /\ toolResult = NoToolResult

\* update_receipt_status(id, "R"), lines 147-178, called on its own: False
\* without a live connection, when execute_update returns False or when it
\* raises, else True; a commit writes this UPDATE and every UPDATE an earlier
\* call left in the transaction, whatever the rows' status was.
DirectUpdate(id) ==
    /\ AtRest
    /\ Len(updateLog) < MaxUpdates
    /\ \E out \in UpdateOutcomes :
          LET ok == UpdateSucceeds(out)
              effect == UpdateEffect(store, session,
                                     ApplyUpdateAt(session, id, "R",
                                                   Timestamp(Len(updateLog) + 1)),
                                     out)
          IN  /\ store' = effect.store
              /\ session' = effect.session
              /\ updateLog' = Append(updateLog,
                                     [id |-> id, ok |-> ok,
                                      outcome |-> IF HasConnection THEN out
                                                  ELSE "not_connected",
                                      before |-> store, after |-> effect.store])
    /\ UNCHANGED <<gwConn, connected, config, pc, limit, receipts, idx,
                   verdict, results, rerun, connectFailed, startStore, queryLog,
                   validateLog>>
    /\ UNCHANGED agentVars
    /\ UNCHANGED toolVars

NextUpdate ==
    \/ Connect
    \/ Disconnect
    \/ \E id \in IDs : DirectUpdate(id)

SpecUpdate == InitUpdate /\ [][NextUpdate]_vars

\* ------------------------------------------------------------ rule tools
\* The receipt dictionary of row k as the extraction delivers it when every
\* column is well formed.
BaseRecord(k) ==
    [ID |-> Num(k), RECEIPT_NUMBER |-> KeyColumns[k].RECEIPT_NUMBER,
     AMOUNT |-> Num(100), STATUS |-> <<"U">>,
     EMPLOYER_ID |-> KeyColumns[k].EMPLOYER_ID, OFFICE_ID |-> Num(1),
     MONTH |-> KeyColumns[k].MONTH, YEAR |-> KeyColumns[k].YEAR,
     SCHEME_ID |-> Num(1), MAIN_SCHEME_ID |-> Num(1),
     RECEIPT_TYPE |-> KeyColumns[k].RECEIPT_TYPE,
     APPORTION_TYPE |-> <<"A", "u", "t", "o">>,
     RECEIPT_DATE |-> NoDate,
     PENALTY_ID |-> KeyColumns[k].PENALTY_ID,
     ADJUSTMENT_ID |-> KeyColumns[k].ADJUSTMENT_ID,
     DELETED_AT |-> NoDate]

DateMarch == <<"2", "0", "2", "4", "-", "0", "3", "-", "1", "5">>
DateMayWithTime == <<"2", "0", "2", "4", "-", "0", "5", "-", "1", "5", " ", "1", "0", ":", "0", "0", ":", "0", "0">>

AmountValues ==
    {NoneNum, Num(0), Num(0 - 5), Num(100), Num(10000000), Num(10000001),
     Num(1000000001), TextNum, EmptyNum}
StatusValues == {<<"U">>, <<"u">>, <<"R">>, <<"X">>, PyNone}
ReceiptNumberValues == {RC1, RC2, <<>>, <<" ">>, PyNone}
MonthValues == {NoneNum, Num(0), Num(3), Num(5), Num(13), TextNum, EmptyNum}
YearValues == {NoneNum, Num(1999), Num(2023), Num(2024), Num(2101), TextNum, EmptyNum}
DateValues ==
    {NoDate, DateText(DateMarch), DateText(DateMayWithTime),
     DateText(<<"1", "5", "/", "0", "5", "/", "2", "0", "2", "4">>),
     DateText(<<"2", "0", "2", "4", "-", "0", "2", "-", "3", "0">>),
     DateObject(2024, 3), DateObject(2024, 5)}
LinkValues == {NoneNum, Num(0), Num(7), Num(8)}
IdentifierValues == {NoneNum, Num(0), Num(1), Num(2), TextNum, EmptyNum}
ReceiptTypeValues == {NoneNum, Num(1), Num(6), TextNum, EmptyNum}
ApportionValues == {<<"A", "u", "t", "o">>, <<"a", "u", "t", "o">>, PyNone}

\* The dictionaries the tools are called with: the well-formed record of a
\* row with one group of its fields replaced.
ToolRecords ==
    UNION { { [BaseRecord(k) EXCEPT !.AMOUNT = a, !.STATUS = s, !.DELETED_AT = d] :
                a \in AmountValues, s \in StatusValues,
                d \in {NoDate, DateObject(2024, 1)} }
            \cup
            { [BaseRecord(k) EXCEPT !.MONTH = m, !.YEAR = y, !.RECEIPT_DATE = d] :
                m \in MonthValues, y \in YearValues, d \in DateValues }
            \cup
            { [BaseRecord(k) EXCEPT !.RECEIPT_NUMBER = n, !.PENALTY_ID = p,
                                    !.ADJUSTMENT_ID = j, !.AMOUNT = a] :
                n \in ReceiptNumberValues, p \in LinkValues,
                j \in {NoneNum, Num(9)}, a \in {Num(0), Num(100)} }
            \cup
            { [BaseRecord(k) EXCEPT !.EMPLOYER_ID = e, !.OFFICE_ID = o,
                                    !.SCHEME_ID = c, !.MAIN_SCHEME_ID = c] :
                e \in IdentifierValues, o \in IdentifierValues,
                c \in IdentifierValues }
            \cup
            { [BaseRecord(k) EXCEPT !.RECEIPT_TYPE = t, !.APPORTION_TYPE = ap,
                                    !.ID = i] :
                t \in ReceiptTypeValues, ap \in ApportionValues,
                i \in {NoneNum, Num(k)} }
            : k \in IDs }

\* The table holds any mix of reconciled and unreconciled rows; a tool is
\* called with any of the dictionaries.
InitTools ==
    /\ store \in [IDs -> {r \in InitialRows : ~r.DELETED_AT}]
    /\ gwConn = "none"
    /\ connected = FALSE
    /\ minConf = 80
    /\ autoThr = 90
    /\ enableAuto = TRUE
    /\ pc = "idle"
    /\ limit = NoLimit
    /\ receipts = <<>>
    /\ idx = 0
    /\ verdict = NoVerdict
    /\ results = NoResults
    /\ rerun = FALSE
    /\ connectFailed = FALSE
    /\ startStore = store
    /\ session = store
    /\ queryLog = <<>>
    /\ validateLog = <<>>
    /\ updateLog = <<>>
    /\ agentState = "idle"
    /\ agentIter = 0
    /\ agentOutput = <<>>
    /\ toolRecord \in ToolRecords
    /\ toolConn = NoConn
    /\ toolResult = NoToolResult

ToolFrame ==
    /\ UNCHANGED <<store, session, gwConn, connected, config, pc, limit, receipts, idx,
                   verdict, results, rerun, connectFailed, startStore, queryLog,
                   validateLog, updateLog, toolRecord>>
    /\ UNCHANGED agentVars

CallCheckReceiptValidity ==
    /\ toolResult' = CheckReceiptValidity(toolRecord)
    /\ toolConn' = NoConn
    /\ ToolFrame

CallCheckEmployerAssignment ==
    /\ toolResult' = CheckEmployerAssignment(toolRecord)
    /\ toolConn' = NoConn
    /\ ToolFrame

CallCheckLogicalConsistency ==
    /\ toolResult' = CheckLogicalConsistency(toolRecord)
    /\ toolConn' = NoConn
    /\ ToolFrame

CallCheckDuplicate ==
    /\ \E given \in BOOLEAN, answers \in BOOLEAN :
          /\ toolConn' = [given |-> given, answers |-> given /\ answers]
          /\ toolResult' = CheckDuplicate(toolRecord, given, session, answers)
    /\ ToolFrame

CallCheckBusinessRules ==
    /\ toolResult' = CheckBusinessRules(toolRecord)
    /\ toolConn' = NoConn
    /\ ToolFrame

NextTools ==
    \/ CallCheckReceiptValidity
    \/ CallCheckEmployerAssignment
    \/ CallCheckLogicalConsistency
    \/ CallCheckDuplicate
    \/ CallCheckBusinessRules

SpecTools == InitTools /\ [][NextTools]_vars


\* ----------------------------------------------------- reading the state
\* The detail list of the dictionary under construction or returned.
Details == IF "details" \in DOMAIN results THEN results.details ELSE <<>>

DetailsWith(P(_)) == {k \in 1..Len(Details) : P(Details[k])}

\* The calls of update_receipt_status made for record id in this call.
UpdatesOf(id) == {k \in 1..Len(updateLog) : updateLog[k].id = id}

\* The calls of validate_receipt made for record id in this call.
ValidationsOf(id) == {k \in 1..Len(validateLog) : validateLog[k] = id}

IsReconciledDetail(d) == d.action = "reconciled"
IsFailedDetail(d) == d.action \in {"update_failed", "invalid"}
IsNeedsReviewDetail(d) == d.action = "needs_review"

\* The loop has handled every record of the batch.
LoopFinished == pc \in {"summarize", "done"} /\ "details" \in DOMAIN results

\* ------------------------------------------------------------------- C1
\* C1 as stated: every record with verdict VALID and confidence >=
\* AUTO_RECONCILE_THRESHOLD, auto-reconcile enabled, has exactly one update
\* attempt and is counted as reconciled / update_failed by its result,
\* whatever MIN_CONFIDENCE_SCORE is.
C1_AsStated ==
    \A k \in 1..Len(Details) :
        LET d == Details[k] IN
        (d.status = "VALID" /\ d.confidence >= autoThr /\ enableAuto)
        => /\ Cardinality(UpdatesOf(d.receipt_id)) = 1
           /\ \A u \in UpdatesOf(d.receipt_id) :
                 d.action = IF updateLog[u].ok THEN "reconciled" ELSE "update_failed"

\* C1 amended: every record with verdict VALID and confidence >= both
\* AUTO_RECONCILE_THRESHOLD and MIN_CONFIDENCE_SCORE, auto-reconcile enabled,
\* has exactly one update attempt; its action is "reconciled" when the update
\* returned true and "update_failed" when it returned false; and the
\* reconciled counter is the number of "reconciled" entries.
C1_AutoReconcile ==
    /\ \A k \in 1..Len(Details) :
          LET d == Details[k] IN
          (d.status = "VALID" /\ d.confidence >= autoThr
              /\ d.confidence >= minConf /\ enableAuto)
          => /\ Cardinality(UpdatesOf(d.receipt_id)) = 1
             /\ \A u \in UpdatesOf(d.receipt_id) :
                   d.action = IF updateLog[u].ok THEN "reconciled" ELSE "update_failed"
    /\ "details" \in DOMAIN results
       => /\ results.reconciled = Cardinality(DetailsWith(IsReconciledDetail))
          /\ results.failed = Cardinality(DetailsWith(IsFailedDetail))

\* A run in which one auto-reconciled record was written and another one's
\* write failed.
C1_Witness ==
    /\ pc = "done"
    /\ \E j, k \in 1..Len(Details) :
          /\ Details[j].action = "reconciled"
          /\ Details[k].action = "update_failed"
          /\ \E u \in UpdatesOf(Details[k].receipt_id) : ~updateLog[u].ok
    /\ results.reconciled = 1
    /\ results.failed = 1


\* ------------------------------------------------------------------- C2
\* The calls of update_receipt_status of the current run were all made for
\* records that pass the gates, and none is made with auto-reconcile off.
IssuedOnlyIfGated ==
    /\ \A u \in 1..Len(updateLog) :
          \E k \in 1..Len(Details) :
             /\ Details[k].receipt_id = updateLog[u].id
             /\ Details[k].status = "VALID"
             /\ Details[k].confidence >= minConf
             /\ Details[k].confidence >= autoThr
             /\ enableAuto
    /\ ~enableAuto => updateLog = <<>>

\* The step decides record id, and its verdict passes the gates of lines
\* 109-110.
DecidesGated(id) ==
    /\ pc = "decide"
    /\ receipts[idx].ID = id
    /\ verdict.status = "VALID"
    /\ verdict.confidence >= minConf
    /\ verdict.confidence >= autoThr
    /\ enableAuto

\* A row gets a new value in the transaction only by the UPDATE of a gated
\* record, and a new value in the committed table only by the commit of
\* such an UPDATE: the one of this step, or one an earlier step had left in
\* the transaction.
WrittenOnlyIfGated ==
    \A id \in IDs :
       /\ (session'[id] # session[id] /\ session'[id] # store[id])
             => DecidesGated(id)
       /\ store'[id] # store[id]
             => /\ store'[id] = session'[id]
                /\ session[id] = store'[id] \/ DecidesGated(id)

\* C2: a status update is issued for a record only if its verdict is VALID,
\* its confidence is >= MIN_CONFIDENCE_SCORE and >= AUTO_RECONCILE_THRESHOLD
\* and ENABLE_AUTO_RECONCILE is true; no update at all when auto-reconcile is
\* disabled, and none below the minimum even when the minimum is configured
\* above the auto-reconcile threshold.  The store changes only by such updates.
C2_UpdateOnlyIfGated == []IssuedOnlyIfGated /\ [][WrittenOnlyIfGated]_vars

\* The minimum is configured above the auto-reconcile threshold, a VALID
\* record scored between the two was decided, and another record was updated.
C2_Witness ==
    /\ minConf > autoThr
    /\ enableAuto
    /\ \E k \in 1..Len(Details) :
          /\ Details[k].status = "VALID"
          /\ Details[k].confidence >= autoThr
          /\ Details[k].confidence < minConf
          /\ UpdatesOf(Details[k].receipt_id) = {}
    /\ updateLog # <<>>

\* ------------------------------------------------------------------- C3
\* C3: no status update is issued for an extracted record whose DELETED_AT
\* is set, whatever the agent's verdict and confidence.
C3_DeletedNeverUpdated ==
    \A u \in 1..Len(updateLog) : ~startStore[updateLog[u].id].DELETED_AT

\* ------------------------------------------------------------------- C4
\* C4: a record whose verdict is INVALID gets no status update, has action
\* "invalid" in its detail entry and is counted in the failed bucket.
C4_InvalidNeverUpdated ==
    /\ \A k \in 1..Len(Details) :
          Details[k].status = "INVALID"
          => /\ UpdatesOf(Details[k].receipt_id) = {}
             /\ Details[k].action = "invalid"
             /\ store[Details[k].receipt_id] = startStore[Details[k].receipt_id]
    /\ "details" \in DOMAIN results
       => results.failed = Cardinality({k \in 1..Len(Details) : Details[k].status = "INVALID"})
                           + Cardinality({u \in 1..Len(updateLog) : ~updateLog[u].ok})

\* A finished run with an INVALID record whose confidence passes both
\* thresholds while auto-reconcile is enabled.
C4_Witness ==
    /\ pc = "done"
    /\ enableAuto
    /\ \E k \in 1..Len(Details) :
          /\ Details[k].status = "INVALID"
          /\ Details[k].confidence >= minConf
          /\ Details[k].confidence >= autoThr
    /\ results.failed >= 1

\* ------------------------------------------------------------------- C5
\* The verdicts C5 names: NEEDS_REVIEW, ERROR, or VALID below the minimum.
C5_Case(d) ==
    \/ d.status \in {"NEEDS_REVIEW", "ERROR"}
    \/ d.status = "VALID" /\ d.confidence < minConf

\* The scenario of C5: min 80, auto 90, verdicts VALID/95, VALID/75, INVALID
\* in a finished run whose one update succeeded.
C5_Scenario ==
    /\ pc = "done"
    /\ minConf = 80
    /\ autoThr = 90
    /\ Len(Details) = 3
    /\ \E f \in [1..3 -> 1..3] :
          /\ \A a, b \in 1..3 : a # b => f[a] # f[b]
          /\ Details[f[1]].status = "VALID" /\ Details[f[1]].confidence = 95
          /\ Details[f[2]].status = "VALID" /\ Details[f[2]].confidence = 75
          /\ Details[f[3]].status = "INVALID"
    /\ \A u \in 1..Len(updateLog) : updateLog[u].ok
    /\ enableAuto

\* C5: a record whose verdict is NEEDS_REVIEW or ERROR, or VALID below
\* MIN_CONFIDENCE_SCORE, gets action "needs_review", is counted in the
\* needs-review bucket and gets no update; in the scenario the counters are
\* processed 3, reconciled 1, failed 1, needs_review 1.
C5_NeedsReview ==
    /\ \A k \in 1..Len(Details) :
          C5_Case(Details[k])
          => /\ Details[k].action = "needs_review"
             /\ UpdatesOf(Details[k].receipt_id) = {}
    /\ "details" \in DOMAIN results
       => /\ results.needs_review = Cardinality(DetailsWith(IsNeedsReviewDetail))
          /\ results.needs_review >= Cardinality(DetailsWith(C5_Case))
          /\ results.failed = Cardinality(DetailsWith(IsFailedDetail))
    /\ C5_Scenario
       => /\ results.processed = 3
          /\ results.reconciled = 1
          /\ results.failed = 1
          /\ results.needs_review = 1

\* The scenario of C5 is reached in a finished run, with the VALID/75 record
\* in the needs-review bucket.
C5_Witness ==
    /\ C5_Scenario
    /\ results.needs_review = 1
    /\ \E k \in 1..3 : C5_Case(Details[k]) /\ Details[k].action = "needs_review"


\* ------------------------------------------------------------------- C6
\* C6: within one run each extracted record is validated exactly once and
\* has at most one status write issued for it; a failed write is not retried.
C6_OneVerdictOneWrite ==
    /\ \A id \in IDs : Cardinality(ValidationsOf(id)) <= 1
    /\ \A id \in IDs : Cardinality(UpdatesOf(id)) <= 1
    /\ LoopFinished
       => /\ Len(validateLog) = Len(receipts)
          /\ \A k \in 1..Len(receipts) :
                Cardinality(ValidationsOf(receipts[k].ID)) = 1

\* A finished run over at least two records in which a write failed.
C6_Witness ==
    /\ pc = "done"
    /\ Len(receipts) >= 2
    /\ Len(validateLog) = Len(receipts)
    /\ \E u \in 1..Len(updateLog) : ~updateLog[u].ok

\* ------------------------------------------------------------------- C7
\* C7: when the connection cannot be established at the start of the run,
\* the run ends at once with success false and all four counters 0, and it
\* performs no extraction query, no validation and no update.
C7_ConnectFailureTerminal ==
    connectFailed
    => /\ pc = "done"
       /\ results.success = FALSE
       /\ results.processed = 0
       /\ results.reconciled = 0
       /\ results.failed = 0
       /\ results.needs_review = 0
       /\ queryLog = <<>>
       /\ validateLog = <<>>
       /\ updateLog = <<>>
       /\ store = startStore

\* The connection failed in a run against a store that holds unreconciled
\* records.
C7_Witness ==
    /\ pc = "done"
    /\ connectFailed
    /\ \E id \in IDs : store[id].STATUS = "U"
    /\ ~connected

\* ------------------------------------------------------------------- C8
QueryFailedInRun == queryLog # <<>> /\ queryLog[Len(queryLog)] = "null"

\* C8: when the connection succeeds but the extraction query fails
\* (execute_query returns None), the run returns success true with the
\* message that no unreconciled receipts were found and processed 0, and
\* performs no validation and no update.
C8_QueryFailureIsEmptyRun ==
    QueryFailedInRun
    => /\ pc = "done"
       /\ results.success = TRUE
       /\ results.message = "No unreconciled receipts found"
       /\ results.processed = 0
       /\ validateLog = <<>>
       /\ updateLog = <<>>
       /\ store = startStore

\* The query failed over a live connection while the store holds
\* unreconciled records.
C8_Witness ==
    /\ pc = "done"
    /\ QueryFailedInRun
    /\ connected
    /\ \E id \in IDs : store[id].STATUS = "U"

\* ------------------------------------------------------------------- C9
AllReconciled(st) == \A id \in IDs : st[id].STATUS = "R"

\* C9: against a store in which every record has status 'R', every run
\* (the first and the one after it) that reaches the store extracts nothing,
\* returns success with processed 0, issues no update and leaves the store
\* as it was.
C9_AllReconciledIdempotent ==
    (pc # "idle" /\ AllReconciled(startStore))
    => /\ store = startStore
       /\ updateLog = <<>>
       /\ validateLog = <<>>
       /\ receipts = <<>>
       /\ (pc = "done" /\ ~connectFailed)
          => /\ results.success = TRUE
             /\ results.processed = 0

\* The second run in a row against an all-reconciled store has finished,
\* its query having succeeded with no row.
C9_Witness ==
    /\ rerun
    /\ pc = "done"
    /\ AllReconciled(startStore)
    /\ AllReconciled(store)
    /\ queryLog # <<>>
    /\ queryLog[Len(queryLog)] = "rows"
    /\ results.success = TRUE

\* ------------------------------------------------------------------ C10
Min(a, b) == IF a < b THEN a ELSE b

\* C10: for every supplied limit N >= 0 and every non-empty extraction of K
\* records ordered by ID, the run validates exactly the first min(N, K)
\* records in that order and reports processed = min(N, K); with no limit
\* all K records are processed.
C10_LimitTruncates ==
    (/\ LoopFinished
     /\ Len(SelectUnreconciled(startStore)) > 0
     /\ (limit.given => limit.n >= 0))
    => LET all == SelectUnreconciled(startStore)
           n == IF limit.given THEN Min(limit.n, Len(all)) ELSE Len(all)
       IN  /\ results.processed = n
           /\ validateLog = [k \in 1..n |-> all[k].ID]


\* ------------------------------------------------------------------ C11
\* C11: a failure while handling one record (the agent raising, seen as the
\* ERROR verdict, or the status update failing) never aborts the run: inside
\* the loop every record before idx has its detail entry, in order; when the
\* loop is over every record of the batch has been validated, has its detail
\* entry and is counted in one bucket; in particular every record that comes
\* after a failed one has been validated and decided.
C11_FailureNeverAborts ==
    /\ pc \in {"validate", "decide"} => Len(Details) = idx - 1
    /\ LoopFinished =>
          /\ Len(Details) = Len(receipts)
          /\ results.reconciled + results.failed + results.needs_review
                = Len(receipts)
    /\ \A k \in 1..Len(Details) :
          /\ Details[k].receipt_id = receipts[k].ID
          /\ ValidationsOf(receipts[k].ID) # {}
          /\ (Details[k].status = "ERROR" \/ Details[k].action = "update_failed")
             => /\ BucketOf(Details[k].action) \in {"failed", "needs_review"}
                /\ LoopFinished =>
                      \A j \in (k + 1)..Len(receipts) :
                         /\ ValidationsOf(receipts[j].ID) # {}
                         /\ j <= Len(Details)

\* A finished run whose first record's validation raised, whose second
\* record's update failed and whose third record was still reconciled.
C11_Witness ==
    /\ pc = "done"
    /\ Len(Details) = 3
    /\ Details[1].status = "ERROR"
    /\ Details[2].action = "update_failed"
    /\ Details[3].action = "reconciled"
    /\ results.needs_review = 1 /\ results.failed = 1 /\ results.reconciled = 1


\* ------------------------------------------------------------------ C12
\* The keys every returned dictionary carries.
ResultKeys == {"success", "processed", "reconciled", "failed", "needs_review"}

\* C12: every call of reconcile_receipts returns a dictionary with a boolean
\* success flag and the four counters, whatever the connect, the query, the
\* agent and the update did, and no exception escapes the call: no call is
\* left by an exception, and from every point inside a call the next step
\* of the call can be taken, so the call is left only by one of its return
\* statements.
C12_AlwaysStructuredResult ==
    /\ pc = "done" =>
          /\ ResultKeys \subseteq DOMAIN results
          /\ results.success \in BOOLEAN
          /\ \A k \in ResultKeys \ {"success"} : results[k] \in Nat
    /\ pc # "raised"
    /\ pc = "extract" => ENABLED Extract
    /\ pc = "validate" => ENABLED Validate
    /\ pc = "decide" => ENABLED Decide
    /\ pc = "summarize" => ENABLED Summarize
    /\ pc \in {"idle", "done", "raised", "extract", "validate", "decide", "summarize"}

\* ------------------------------------------------------------------ C13
\* AUTO_RECONCILE_THRESHOLD raised strictly above confidence c.
RaisedThresholds(c) == (c + 1)..(c + ThresholdRaise)

\* C13: threshold monotonicity.  For every record a run has auto-reconciled
\* at confidence c, the decision of lines 109-130 on the same verdict with the
\* same MIN_CONFIDENCE_SCORE and ENABLE_AUTO_RECONCILE but with
\* AUTO_RECONCILE_THRESHOLD raised strictly above c does not reach
\* update_receipt_status, makes no update call whatever the database would
\* have answered, and gives the action needs_review, counted needs_review.
C13_ThresholdMonotone ==
    \A k \in 1..Len(Details) :
        LET d == Details[k] IN
        d.action = "reconciled" =>
           /\ d.confidence >= autoThr
           /\ \A thr \in RaisedThresholds(d.confidence) :
                 /\ thr > autoThr
                 /\ ~AttemptsUpdateAt(d.status, d.confidence, thr)
                 /\ \A out \in UpdateOutcomes :
                       LET attempt == AttemptsUpdateAt(d.status, d.confidence, thr)
                           updated == attempt /\ UpdateSucceeds(out)
                           action == DecideActionAt(d.status, d.confidence,
                                                    updated, thr)
                       IN  /\ action = "needs_review"
                           /\ BucketOf(action) = "needs_review"
                           /\ UpdateCalls(d.receipt_id, attempt, updated) = <<>>

\* A run that auto-reconciled one record at confidence 95 and one at 92, with
\* the update written for both.
C13_Witness ==
    /\ pc = "done"
    /\ \E j, k \in 1..Len(Details) :
          /\ Details[j].action = "reconciled" /\ Details[j].confidence = 95
          /\ Details[k].action = "reconciled" /\ Details[k].confidence = 92
          /\ UpdatesOf(Details[j].receipt_id) # {}
          /\ store[Details[j].receipt_id].STATUS = "R"
    /\ results.reconciled = 2


\* ------------------------------------------------------------------ C14
KwIteration == <<"I", "T", "E", "R", "A", "T", "I", "O", "N">>

\* The verdict and the detail entry of a record whose agent ran into the cap.
IsCapVerdict(v) ==
    /\ v.status = "NEEDS_REVIEW"
    /\ v.confidence = 50
    /\ v.reasoning = OutIterationCap
    /\ Contains(Upper(v.reasoning), KwIteration)

\* C14: the agent never runs more than MaxIterations iterations; when it has
\* used them all without a final answer, validate_receipt returns
\* NEEDS_REVIEW with confidence 50 and a reasoning text that names the
\* iteration limit; the record does not reach update_receipt_status, its
\* detail entry has action needs_review and its row is left as it was.
C14_CapIsNeedsReview ==
    /\ agentIter \in 0..MaxIterations
    /\ (agentState = "returned" /\ agentIter = MaxIterations)
          => agentOutput = OutIterationCap
    /\ (agentState = "parsed" /\ agentIter = MaxIterations)
          => /\ pc = "decide"
             /\ IsCapVerdict(verdict)
             /\ ~AttemptsUpdate(verdict.status, verdict.confidence)
    /\ \A k \in 1..Len(Details) :
          Details[k].reasoning = OutIterationCap
          => /\ IsCapVerdict(Details[k])
             /\ Details[k].action = "needs_review"
             /\ UpdatesOf(Details[k].receipt_id) = {}
             /\ store[Details[k].receipt_id] = startStore[Details[k].receipt_id]

\* A finished run with auto-reconcile enabled in which the agent used up its
\* iterations for the second record, after the first one was reconciled.
C14_Witness ==
    /\ pc = "done"
    /\ enableAuto
    /\ agentIter = MaxIterations
    /\ Len(Details) = 2
    /\ Details[1].action = "reconciled"
    /\ Details[2].reasoning = OutIterationCap
    /\ results.needs_review = 1


\* ------------------------------------------------------------------ C15
\* The verdict of the except branch: ERROR, confidence 0, the reasoning made
\* of the fixed prefix and the text of the exception.
IsErrorVerdict(v, errors) ==
    /\ v.status = "ERROR"
    /\ v.confidence = 0
    /\ \E e \in errors : v.reasoning = ErrorPrefix \o e

\* What str(e) reads when parsing raised: on an output that is no string,
\* and on a confidence number of one digit more than int() converts.
ParseErrors == {ErrNoneUpper, ErrIntDigits(MaxStrDigits + 1)}

\* C15: when formatting the record or running the agent raises, and when
\* parsing raises on an output that is no string or on a confidence number
\* too long for int(), validate_receipt returns
\* status ERROR with confidence 0 and reasoning holding the text of the
\* exception, also when that text reads like a VALID answer; the record is
\* validated once in the run, its detail entry has action needs_review, no
\* update is attempted for it and its row is left as it was.
C15_ExceptionIsError ==
    /\ agentState = "raised"
          => pc = "decide" /\ IsErrorVerdict(verdict, ErrorMessages)
    /\ (agentState = "parsed" /\ agentOutput = NoneOutput)
          => pc = "decide" /\ IsErrorVerdict(verdict, {ErrNoneUpper})
    /\ (agentState = "parsed" /\ agentOutput # NoneOutput
           /\ IntRaises(ConfidenceDigits(agentOutput)))
          => /\ pc = "decide"
             /\ IsErrorVerdict(verdict,
                     {ErrIntDigits(Len(ConfidenceDigits(agentOutput)))})
    /\ pc = "decide" /\ verdict.status = "ERROR"
          => ~AttemptsUpdate(verdict.status, verdict.confidence)
    /\ \A k \in 1..Len(Details) :
          Details[k].status = "ERROR"
          => /\ IsErrorVerdict(Details[k], ErrorMessages \cup ParseErrors)
             /\ Details[k].action = "needs_review"
             /\ Cardinality(ValidationsOf(Details[k].receipt_id)) = 1
             /\ UpdatesOf(Details[k].receipt_id) = {}
             /\ store[Details[k].receipt_id] = startStore[Details[k].receipt_id]
             /\ results.needs_review >= 1

\* A finished run with auto-reconcile enabled whose first record's agent
\* raised an exception with the text "VALID 99%" and whose second record's
\* parsing raised.
C15_Witness ==
    /\ pc = "done"
    /\ enableAuto
    /\ Len(Details) = 2
    /\ Details[1].status = "ERROR"
    /\ Details[1].reasoning = ErrorPrefix \o ErrMentionsValid
    /\ Details[2].status = "ERROR"
    /\ Details[2].reasoning = ErrorPrefix \o ErrNoneUpper
    /\ results.needs_review = 2
    /\ updateLog = <<>>


\* ------------------------------------------------------------------ C16
\* C16: every verdict validate_receipt returns has a confidence in 0..100,
\* and so has every confidence stored in a detail entry.
C16_ConfidenceInRange ==
    /\ verdict.confidence \in 0..100
    /\ \A k \in 1..Len(Details) : Details[k].confidence \in 0..100


\* ------------------------------------------------------------------ C17
\* What the claim calls the final state of a record: status and actor.
FinalState(row) == <<row.STATUS, row.RECONCILED_BY>>

\* The call's UPDATE was committed.
Written(u) == u.outcome \in {"committed", "close_raised"}

\* C17: update_receipt_status(id, "R") is idempotent on status and actor.
\* A call whose UPDATE the database carries out to the end returns true
\* whatever the status of the row, also for a row that is already
\* reconciled, and a call returns true in no other case; after a committed
\* UPDATE the row has status R and actor SYSTEM; a second one for the same
\* record leaves the same status and actor as the first; a call changes no
\* row but the one with its identity, and a call that commits nothing
\* changes nothing.
C17_UpdateIdempotent ==
    \A n \in 1..Len(updateLog) :
        LET u == updateLog[n] IN
        /\ u.ok <=> u.outcome = "committed"
        /\ ~Written(u) => u.after = u.before
        /\ Written(u) =>
              /\ FinalState(u.after[u.id]) = <<"R", "SYSTEM">>
              /\ u.after[u.id].DELETED_AT = u.before[u.id].DELETED_AT
              /\ \A k \in IDs \ {u.id} : u.after[k] = u.before[k]
              /\ \A m \in 1..(n - 1) :
                    (Written(updateLog[m]) /\ updateLog[m].id = u.id)
                    => /\ u.before[u.id].STATUS = "R"
                       /\ FinalState(u.after[u.id])
                             = FinalState(updateLog[m].after[u.id])
        /\ n = Len(updateLog) => store = u.after

\* ------------------------------------------------------------------ C18
Actions == {"reconciled", "update_failed", "invalid", "needs_review"}

\* C18: in every completed run that extracted at least one record,
\* processed = reconciled + failed + needs_review; the detail list has
\* processed entries, the k-th for the k-th extracted record, in ascending
\* order of ID; every action is one of the four; and the counters count the
\* entries by action: reconciled the "reconciled" ones, failed the
\* "update_failed" and "invalid" ones, needs_review the "needs_review" ones.
C18_CountersMatchDetails ==
    (pc = "done" /\ "details" \in DOMAIN results) =>
       /\ Len(SelectUnreconciled(startStore)) >= 1
       /\ results.processed
             = results.reconciled + results.failed + results.needs_review
       /\ Len(results.details) = results.processed
       /\ results.processed = Len(receipts)
       /\ \A k \in 1..Len(results.details) :
             /\ results.details[k].receipt_id = receipts[k].ID
             /\ results.details[k].action \in Actions
             /\ \A j \in 1..(k - 1) :
                   results.details[j].receipt_id < results.details[k].receipt_id
       /\ results.reconciled
             = Cardinality({k \in 1..Len(results.details) :
                              results.details[k].action = "reconciled"})
       /\ results.failed
             = Cardinality({k \in 1..Len(results.details) :
                              results.details[k].action \in {"update_failed", "invalid"}})
       /\ results.needs_review
             = Cardinality({k \in 1..Len(results.details) :
                              results.details[k].action = "needs_review"})

\* A completed run over three records that ended with the actions invalid,
\* update_failed and needs_review, in that order.
C18_Witness ==
    /\ pc = "done"
    /\ "details" \in DOMAIN results
    /\ results.processed = 3
    /\ results.details[1].action = "invalid"
    /\ results.details[2].action = "update_failed"
    /\ results.details[3].action = "needs_review"
    /\ results.failed = 2 /\ results.needs_review = 1 /\ results.reconciled = 0


\* ------------------------------------------------------------------ C19
\* A store with no unreconciled row: the extraction query succeeds on it with
\* zero rows.
ZeroRowStore ==
    [k \in IDs |-> [STATUS |-> "R", DELETED_AT |-> FALSE,
                    RECONCILED_BY |-> "SYSTEM",
                    RECONCILED_AT |-> "SYSTIMESTAMP",
                    UPDATED_AT |-> "SYSTIMESTAMP"]]

\* C19: a failed extraction query is treated distinctly from one that
\* succeeded with zero rows: in a run whose query failed, what
\* get_unreconciled_receipts returned differs from what it returns for a
\* successful query with zero rows, and so does the result of the run.
C19_NullDistinctFromEmpty ==
    (pc = "done" /\ QueryFailedInRun) =>
       /\ GetUnreconciledReceipts(store, FALSE, TRUE)
             # GetUnreconciledReceipts(ZeroRowStore, TRUE, TRUE)
       /\ results # NoReceiptsResult


\* ------------------------------------------------------------------ C20
\* The text holds the marker kw at some position, in any letter case.
HasMarker(text, kw) ==
    \E p \in 1..Len(text) :
        MatchesIgnoringCaseAt(text, p, kw)

\* The markers of each text the executor can return.
MarkersOf ==
    [o \in AgentAnswers \cup {OutIterationCap} |->
        [invalid |-> HasMarker(o, KwInvalid), valid |-> HasMarker(o, KwValid)]]

\* The status agrees with the markers of the text, INVALID first.
StatusFollowsMarkers(status, text) ==
    /\ MarkersOf[text].invalid => status = "INVALID"
    /\ status = "INVALID" => MarkersOf[text].invalid
    /\ status = "VALID" => MarkersOf[text].valid /\ ~MarkersOf[text].invalid
    /\ (MarkersOf[text].valid /\ ~MarkersOf[text].invalid) => status = "VALID"

\* C20 as stated: for every output text handed to _parse_agent_response the
\* status is INVALID when the text holds the marker INVALID in any letter
\* case, also when VALID stands elsewhere in the text, and VALID only when
\* the text holds VALID and no INVALID.
C20_AsStated ==
    (agentState = "parsed" /\ agentOutput # NoneOutput)
    => /\ verdict.reasoning = agentOutput
       /\ StatusFollowsMarkers(verdict.status, agentOutput)

\* The confidence pattern finds in the text a number of more digits than
\* int() converts.
NumberTooLong(text) == Len(ConfidenceDigits(text)) > MaxStrDigits

\* C20: _parse_agent_response gives INVALID precedence over VALID on every
\* text on which it returns.  For every output text whose confidence number
\* int() converts, the status is INVALID when the text holds the marker
\* INVALID in any letter case, also when VALID stands elsewhere in the text,
\* and VALID only when the text holds VALID and no INVALID; on a text whose
\* confidence number is too long the call raises and validate_receipt
\* returns ERROR with confidence 0, whatever markers the text holds.  The
\* same holds of every detail entry made from a parsed answer, and a record
\* whose answer was parsed and holds INVALID is counted as a failure and
\* never updated.
C20_InvalidPrecedence ==
    /\ (agentState = "parsed" /\ agentOutput # NoneOutput
           /\ ~NumberTooLong(agentOutput))
          => /\ verdict.reasoning = agentOutput
             /\ StatusFollowsMarkers(verdict.status, agentOutput)
    /\ (agentState = "parsed" /\ agentOutput # NoneOutput
           /\ NumberTooLong(agentOutput))
          => /\ verdict.status = "ERROR"
             /\ verdict.confidence = 0
    /\ \A k \in 1..Len(Details) :
          Details[k].status # "ERROR"
          => /\ StatusFollowsMarkers(Details[k].status, Details[k].reasoning)
             /\ MarkersOf[Details[k].reasoning].invalid
                   => /\ Details[k].action = "invalid"
                      /\ UpdatesOf(Details[k].receipt_id) = {}

\* A finished run whose first answer held VALID and INVALID and whose second
\* held invalid in lower case: both records are counted as failures.
C20_Witness ==
    /\ pc = "done"
    /\ Len(Details) = 2
    /\ Details[1].reasoning = OutBoth
    /\ Details[1].status = "INVALID"
    /\ Details[2].reasoning = OutInvalidLower
    /\ Details[2].status = "INVALID"
    /\ results.failed = 2


\* ------------------------------------------------------------------ C21
NoEntryTwice(xs) == \A j, k \in 1..Len(xs) : xs[j] = xs[k] => j = k

\* C21: the issues list of every verdict _parse_agent_response returns holds
\* no entry twice, and so does the issues list of every detail entry.
C21_NoIssueTwice ==
    /\ NoEntryTwice(verdict.issues)
    /\ \A k \in 1..Len(Details) : NoEntryTwice(Details[k].issues)

\* ------------------------------------------------------------------ C22
PassKeywords == {"VALID", "CONSISTENT", "COMPLIANT"}
FailKeywords == {"INVALID", "INCONSISTENT", "RULE_VIOLATION"}
FourClasses == PassKeywords \cup FailKeywords \cup {"WARNING", "ERROR"}

\* C22: whatever rule tool was called, on whatever record and table, the
\* keyword its result starts with is one of VALID/CONSISTENT/COMPLIANT,
\* INVALID/INCONSISTENT/RULE_VIOLATION, WARNING or ERROR.
C22_FourOutcomeClasses ==
    toolResult.tool # "none" => toolResult.keyword \in FourClasses

\* ------------------------------------------------------------------ C23
\* Year and month of a delivered receipt date, whether it is a datetime
\* object or a text starting with YYYY-MM-DD.
DeliveredDate(d) ==
    IF d.kind = "datetime" THEN [ok |-> TRUE, year |-> d.year, month |-> d.month]
    ELSE IF d.kind = "str" THEN ParseYmd(FirstWord(d.text))
    ELSE [ok |-> FALSE, year |-> 0, month |-> 0]

DateDisagrees(r) ==
    /\ DeliveredDate(r.RECEIPT_DATE).ok
    /\ r.MONTH.kind = "num" /\ r.MONTH.val \in 1..12
    /\ r.YEAR.kind = "num" /\ r.YEAR.val > 0
    /\ \/ DeliveredDate(r.RECEIPT_DATE).month # r.MONTH.val
       \/ DeliveredDate(r.RECEIPT_DATE).year # r.YEAR.val

InMessages(res, m) == \E k \in 1..Len(res.messages) : res.messages[k] = m

\* C23: when check_logical_consistency was called on a record whose receipt
\* date, in either form, lies in another month or year than its MONTH and
\* YEAR, the result is INCONSISTENT and names the date inconsistency.
C23_DateMismatchReported ==
    (toolResult.tool = "check_logical_consistency" /\ DateDisagrees(toolRecord))
    => /\ toolResult.keyword = "INCONSISTENT"
       /\ InMessages(toolResult, "Receipt date inconsistent with month/year")

\* ------------------------------------------------------------------ C24
MaximumReceiptAmount == 10000000

BreaksABusinessRule(r) ==
    \/ r.STATUS # <<"U">>
    \/ r.RECEIPT_NUMBER = PyNone \/ IsBlank(r.RECEIPT_NUMBER)
    \/ r.AMOUNT.kind = "num"
       /\ (r.AMOUNT.val <= 0 \/ r.AMOUNT.val > MaximumReceiptAmount)
    \/ r.DELETED_AT.kind # "none"

\* C24: check_business_rules answers RULE_VIOLATION for every record whose
\* status is not 'U', whose receipt number is missing or blank, whose amount
\* is present and not above zero or above 10,000,000, or whose DELETED_AT is
\* set; it answers COMPLIANT only for records with none of these.
C24_RuleViolationForEveryBreach ==
    toolResult.tool = "check_business_rules"
    => /\ BreaksABusinessRule(toolRecord) => toolResult.keyword = "RULE_VIOLATION"
       /\ toolResult.keyword = "COMPLIANT" => ~BreaksABusinessRule(toolRecord)


\* ------------------------------------------------------------------ C25
DuplicateKeyFields ==
    <<"ID", "RECEIPT_NUMBER", "AMOUNT", "EMPLOYER_ID", "MONTH", "YEAR",
      "RECEIPT_TYPE">>

AKeyFieldIsMissing(r) == MissingFields(r, DuplicateKeyFields) # <<>>

\* C25: a check_duplicate call without a connection, or on a record with a
\* missing key field, answers WARNING, and it does so even when the
\* connection it was given is dead, so without a query; a call whose query
\* fails answers ERROR; none of these calls answers with a fail keyword or
\* DUPLICATE.
C25_DuplicateCheckBestEffort ==
    toolResult.tool = "check_duplicate"
    => /\ (~toolConn.given \/ AKeyFieldIsMissing(toolRecord))
          => toolResult.keyword = "WARNING"
       /\ (toolConn.given /\ ~toolConn.answers /\ SufficientData(toolRecord))
          => toolResult.keyword = "ERROR"
       /\ (~toolConn.given \/ ~toolConn.answers \/ AKeyFieldIsMissing(toolRecord))
          => toolResult.keyword \notin FailKeywords \cup {"DUPLICATE"}

\* A call on a record without a receipt number, with a dead connection and
\* a reconciled row of the same key in the table, answered WARNING.
C25_Witness ==
    /\ toolResult.tool = "check_duplicate"
    /\ toolConn.given /\ ~toolConn.answers
    /\ toolRecord.ID = Num(1)
    /\ toolRecord.RECEIPT_NUMBER = PyNone
    /\ store[2].STATUS = "R"
    /\ toolResult.keyword = "WARNING"

\* ------------------------------------------------------------------ C26
\* Row k of the table is another reconciled record with the key of r.
SameKeyReconciled(k, r) ==
    /\ r.ID.kind = "num" /\ k # r.ID.val
    /\ store[k].STATUS = "R"
    /\ KeyColumns[k].RECEIPT_NUMBER = r.RECEIPT_NUMBER
    /\ \A f \in {"MONTH", "YEAR", "EMPLOYER_ID", "RECEIPT_TYPE"} :
          r[f].kind = "num" /\ KeyColumns[k][f].val = r[f].val
    /\ \A f \in {"PENALTY_ID", "ADJUSTMENT_ID"} :
          \/ KeyColumns[k][f].kind = "none" /\ r[f].kind = "none"
          \/ /\ KeyColumns[k][f].kind = "num" /\ r[f].kind = "num"
             /\ KeyColumns[k][f].val = r[f].val

\* The call reached its query and the query was answered.
QueryAnswered ==
    /\ toolConn.given /\ toolConn.answers
    /\ SufficientData(toolRecord)
    /\ BindsAccepted(toolRecord)

\* C26 as stated: check_duplicate answers DUPLICATE exactly when the table
\* holds another reconciled row with the record's key.
C26_DuplicateExactlyWhenMatch ==
    toolResult.tool = "check_duplicate"
    => (toolResult.keyword = "DUPLICATE"
        <=> \E k \in IDs : SameKeyReconciled(k, toolRecord))

\* C26 amended: a DUPLICATE answer always has another reconciled row with
\* the record's key behind it, and a call whose query was answered says
\* DUPLICATE when there is such a row and UNIQUE when there is none.
C26_DuplicateWhenQueried ==
    toolResult.tool = "check_duplicate"
    => /\ toolResult.keyword = "DUPLICATE"
          => \E k \in IDs : SameKeyReconciled(k, toolRecord)
       /\ QueryAnswered
          => toolResult.keyword =
                IF \E k \in IDs : SameKeyReconciled(k, toolRecord)
                THEN "DUPLICATE" ELSE "UNIQUE"

\* Record 1, reconciled itself, is checked while row 2 (same key, both
\* linkage columns NULL) and row 3 (another PENALTY_ID) are reconciled.
C26_Witness ==
    /\ toolResult.tool = "check_duplicate"
    /\ toolRecord = BaseRecord(1)
    /\ QueryAnswered
    /\ \A k \in 1..3 : store[k].STATUS = "R"
    /\ toolResult.keyword = "DUPLICATE"


\* ------------------------------------------------------------------ C27
\* Rows i and j carry the same duplicate key.
SharesKey(i, j) ==
    /\ i # j
    /\ KeyColumns[i].RECEIPT_NUMBER = KeyColumns[j].RECEIPT_NUMBER
    /\ \A f \in {"MONTH", "YEAR", "EMPLOYER_ID", "RECEIPT_TYPE",
                 "PENALTY_ID", "ADJUSTMENT_ID"} :
          KeyColumns[i][f] = KeyColumns[j][f]

\* What check_duplicate answers on the table as it is now for row j, over a
\* live connection.
DuplicateAnswerNow(j) == CheckDuplicate(BaseRecord(j), TRUE, store, TRUE).keyword

\* C27: a run connects, extracts, and then validates and decides the batch
\* one record after another: when record idx is to be validated or decided
\* the run is connected and has queried, the records before it, and no
\* others, have been validated, decided and written, in batch order; and a
\* duplicate check made then for record idx answers DUPLICATE when an earlier
\* record of the run with the same key was reconciled.
C27_OneRecordAfterAnother ==
    pc \in {"validate", "decide"}
    => /\ connected /\ Len(queryLog) = 1
       /\ idx \in 1..Len(receipts)
       /\ Len(Details) = idx - 1
       /\ Len(validateLog) = IF pc = "validate" THEN idx - 1 ELSE idx
       /\ \A k \in 1..Len(validateLog) : validateLog[k] = receipts[k].ID
       /\ \A k \in 1..Len(Details) : Details[k].receipt_id = receipts[k].ID
       /\ \A u \in 1..Len(updateLog) :
             \E k \in 1..(idx - 1) : updateLog[u].id = receipts[k].ID
       /\ \A k \in 1..Len(Details) :
             (Details[k].action = "reconciled"
              /\ SharesKey(Details[k].receipt_id, receipts[idx].ID))
             => /\ store[Details[k].receipt_id].STATUS = "R"
                /\ DuplicateAnswerNow(receipts[idx].ID) = "DUPLICATE"

\* Records 1 and 2 were both unreconciled when the run started; record 1 has
\* been reconciled and record 2 is about to be validated: the duplicate
\* check for record 2 finds record 1.
C27_Witness ==
    /\ pc = "validate"
    /\ idx = 2
    /\ receipts[1].ID = 1 /\ receipts[2].ID = 2
    /\ startStore[1].STATUS = "U" /\ startStore[2].STATUS = "U"
    /\ Details[1].action = "reconciled"
    /\ store[1].STATUS = "R"
    /\ DuplicateAnswerNow(2) = "DUPLICATE"


\* ------------------------------------------------------------------ C28
\* Rows the run has changed, and rows the run reports as reconciled.
ChangedRows == {k \in IDs : store[k] # startStore[k]}
ReconciledRows ==
    {Details[k].receipt_id : k \in DetailsWith(LAMBDA d : d.action = "reconciled")}
StillSelected(id) ==
    \E k \in 1..Len(SelectUnreconciled(store)) : SelectUnreconciled(store)[k].ID = id

\* C28: when a run that processed records has returned, the rows that
\* differ from what they were at its start are exactly the rows of the
\* detail entries with action "reconciled"; each of them went from 'U' to
\* 'R'; the reconciled counter is their number; and the record of every
\* other detail entry still has status 'U' and is selected by the next
\* extraction.
C28_OnlyReconciledRowsChanged ==
    (pc = "done" /\ Len(Details) > 0)
    => /\ ChangedRows = ReconciledRows
       /\ \A id \in ChangedRows :
             startStore[id].STATUS = "U" /\ store[id].STATUS = "R"
       /\ results.reconciled = Cardinality(ReconciledRows)
       /\ \A k \in 1..Len(Details) :
             Details[k].action # "reconciled"
             => /\ store[Details[k].receipt_id].STATUS = "U"
                /\ store[Details[k].receipt_id] = startStore[Details[k].receipt_id]
                /\ StillSelected(Details[k].receipt_id)
       /\ results.failed + results.needs_review =
             Cardinality(DetailsWith(LAMBDA d : d.action # "reconciled"))


\* ------------------------------------------------------------------ C29
IsLetterAt(s, p) ==
    p \in 1..Len(s)
    /\ \E k \in 1..26 : s[p] = UpperLetters[k] \/ s[p] = LowerLetters[k]

\* The text holds the word VALID, in either case, with no letter next to it.
StatesValid(text) ==
    \E p \in 1..Len(text) :
       /\ MatchesIgnoringCaseAt(text, p, KwValid)
       /\ ~IsLetterAt(text, p - 1)
       /\ ~IsLetterAt(text, p + Len(KwValid))

KwNeedsReview == <<"N", "E", "E", "D", "S", "_", "R", "E", "V", "I", "E", "W">>

\* Final answers that declare NEEDS_REVIEW, hold no INVALID marker and hold
\* the letters of VALID inside a longer word only, or not at all.
ReviewAnswers ==
    {o \in AgentAnswers :
        /\ StartsWithAt(o, 1, KwNeedsReview)
        /\ ~Contains(Upper(o), KwInvalid)
        /\ ~StatesValid(o)}

\* C29: a final answer that declares NEEDS_REVIEW, without an INVALID
\* marker and without the word VALID standing alone, is parsed as
\* NEEDS_REVIEW, and its record is not reconciled and gets no update.
C29_ReviewAnswerNeverValid ==
    /\ (agentState = "parsed" /\ agentOutput \in ReviewAnswers)
          => verdict.status = "NEEDS_REVIEW"
    /\ \A k \in 1..Len(Details) :
          (Details[k].status # "ERROR" /\ Details[k].reasoning \in ReviewAnswers)
          => /\ Details[k].status = "NEEDS_REVIEW"
             /\ Details[k].action = "needs_review"
             /\ UpdatesOf(Details[k].receipt_id) = {}


\* ------------------------------------------------------------------ C30
Running == pc \in {"extract", "validate", "decide", "summarize"}

\* The flag is set only while the gateway holds a connection that
\* ReceiptReconciler.connect opened, and a run past its connect step has the
\* flag set.
FlagFollowsGateway ==
    /\ connected => gwConn = "reconciler"
    /\ Running => connected

\* What one step may do to the flag and to the gateway connection.
FlagStep ==
    \* the gateway opens a connection only while the flag is false
    /\ (gwConn' # gwConn /\ gwConn' = "reconciler") => (~connected /\ connected')
    /\ (~connectFailed /\ connectFailed')
          => (~connected /\ ~connected' /\ gwConn' = gwConn)
    \* the flag is raised only by a gateway connect that succeeded
    /\ (~connected /\ connected') => (AtRest /\ gwConn' = "reconciler")
    \* the flag is lowered only by disconnect, between two runs, and the
    \* gateway connection is closed only by a disconnect that lowers the flag
    /\ (connected /\ ~connected')
          => (AtRest /\ pc' = pc /\ gwConn' \in {"none", gwConn})
    /\ (gwConn' # gwConn /\ gwConn' = "none") => (connected /\ ~connected')
    \* a run started while the flag is false extracts only after connecting
    /\ (AtRest /\ ~connected /\ pc' = "extract")
          => (connected' /\ gwConn' = "reconciler")
    \* and otherwise ends at line 49 with the flag still false: connect
    \* returned false, or an exception left it
    /\ (AtRest /\ pc' \notin {pc, "extract"})
          => /\ ~connected'
             /\ pc' \in {"done", "raised"}
             /\ pc' = "done" <=> connectFailed'

\* C30: over every sequence of connect, reconcile_receipts and disconnect
\* calls the gateway connect happens only while the flag is false, the flag
\* turns true only with a successful gateway connect, disconnect turns it
\* false, and a run begun with the flag false has connected again when it
\* extracts.
C30_ConnectionFlag == []FlagFollowsGateway /\ [][FlagStep]_vars

\* A run that processed records has returned and the reconciler has been
\* disconnected since: flag and gateway connection are both down.
C30_Witness ==
    /\ pc = "done"
    /\ Len(Details) > 0
    /\ results.reconciled > 0
    /\ ~connected /\ gwConn = "none"


=============================================================================
